---- MODULE Spec2Model ----
(***************************************************************************)
(* Command history and raster painting of zoom-pan.                        *)
(*                                                                         *)
(*   HistoryManager   src/lib/commands/history-manager.ts                  *)
(*   StrokeCommand    src/lib/commands/stroke-command.ts                   *)
(*                    (lines 1-228: bounding-box revision, canMerge false; *)
(*                     lines 230-384: merging revision)                    *)
(*   CanvasLayer      src/unnamed/part_006                                 *)
(*                                                                         *)
(* One CanvasLayer with its offscreen raster and one HistoryManager.       *)
(* Lengths are kept in eighths of a pixel (SubPx) and pressure in quarters *)
(* (PressureDen) so that radii, distances and the floor/ceil of the        *)
(* bounding box are exact integer computations.  A pixel is inked when its *)
(* centre lies inside the stroked shape; colours are opaque.               *)
(***************************************************************************)
EXTENDS Integers, Sequences, FiniteSets, TLC

VARIABLES
  rev,              \* which revision of stroke-command.ts is built
  now,              \* Date.now()
  tainted,          \* getImageData on the layer's canvas throws
  raster,           \* the layer's offscreen canvas: pixel -> colour
  undoStack,        \* HistoryManager._undoStack
  redoStack,        \* HistoryManager._redoStack
  maxHistorySize,   \* HistoryManager._maxHistorySize
  historyManager,   \* CanvasLayer._historyManager is set
  drawing,          \* CanvasLayer._drawing
  lastPos,          \* CanvasLayer._lastX, _lastY
  strokePoints,     \* CanvasLayer._currentStrokePoints
  strokeStyle,      \* CanvasLayer._currentStrokeColor / Size / Mode
  startSnapshot,    \* CanvasLayer._strokeStartSnapshot
  nextId,           \* identity of the next command object
  recorded,         \* positions buffered since the latest beginStroke or destroy
  abandoned,        \* that beginStroke or destroy dropped a stroke in progress
  script,           \* progress through strokes, then undos, then redos
  strokeCalls,      \* number of stroke() calls so far
  onlyAdds,         \* every operation so far was a non-merging add
  last,             \* the operation just performed, what it returned and called
  view,             \* the ZoomPan2D view controller: its fields and the captured pointer
  layers,           \* the LayerManager: its stacks, the layer objects, image loads in flight
  host              \* the arrays a host gave the HistoryManager constructor

vars == <<rev, now, tainted, raster, undoStack, redoStack, maxHistorySize,
          historyManager, drawing, lastPos, strokePoints, strokeStyle,
          startSnapshot, nextId, recorded, abandoned, script, strokeCalls,
          onlyAdds, last, view, layers, host>>

NULL == [null |-> TRUE]

\* ---------------------------------------------------------------- bounds
CanvasW == 5
CanvasH == 2
MaxCap == 2
MaxCmds == 3
MaxStrokes == 2
MaxStrokeCalls == 2
MaxClock == 101

\* ------------------------------------------------------ program constants
DefaultStrokeSize == 10
BBoxPadding == 2
MergeWindowMs == 100
MinHistorySize == 1
SubPx == 8
FracBits == 1
MaxLog == 3
MaxPan == 8
MaxLayers == 3
MaxStack == 3
MaxDestroys == 2
FrictionNum == 92
FrictionDen == 100
StopSpeedNum == 20
StopSpeedDen == 1000
EmaDen == 4
PressureDen == 4

Min(a, b) == IF a < b THEN a ELSE b
Max(a, b) == IF a > b THEN a ELSE b
Abs(a) == IF a < 0 THEN -a ELSE a
FloorPx(v) == v \div SubPx
CeilPx(v) == -((-v) \div SubPx)

\* ------------------------------------------------------------- inputs
Pixels == (0 .. CanvasW - 1) \X (0 .. CanvasH - 1)
Transparent == "transparent"
Red == "red"
Blue == "blue"
Black == "black"
\* The layer's redraw callback paints the even columns blue.
InitialRaster == [p \in Pixels |-> IF p[1] % 2 = 0 THEN Blue ELSE Transparent]
Positions == {<<4, 0>>}
\* The stroke() calls the host makes: position, colour, size, pressure, mode.
StrokeInputs ==
  { [w |-> <<4, 1>>, colour |-> Red, size |-> 8, pressure |-> PressureDen, mode |-> "brush"],
    [w |-> <<4, 1>>, colour |-> Red, size |-> 2, pressure |-> PressureDen, mode |-> "eraser"] }
\* The strokes the host hands to the manager as ready-made commands.
CommandInputs ==
  { [points |-> <<[x |-> 1, y |-> 1, pressure |-> PressureDen]>>,
     colour |-> Red, size |-> 2, mode |-> "brush"],
    [points |-> <<[x |-> 1, y |-> 1, pressure |-> PressureDen],
                  [x |-> 4, y |-> 1, pressure |-> PressureDen]>>,
     colour |-> Red, size |-> 2, mode |-> "eraser"] }
\* Strokes whose pressure changes along the way; a pointer may leave the canvas.
PressureInputs ==
  { [points |-> <<[x |-> 0, y |-> 1, pressure |-> 1],
                  [x |-> -3, y |-> 1, pressure |-> PressureDen]>>,
     colour |-> Red, size |-> DefaultStrokeSize, mode |-> "brush"],
    [points |-> <<[x |-> 1, y |-> 1, pressure |-> PressureDen],
                  [x |-> 2, y |-> 0, pressure |-> 1]>>,
     colour |-> Black, size |-> 2, mode |-> "brush"],
    [points |-> <<[x |-> 4, y |-> 0, pressure |-> 2]>>,
     colour |-> Red, size |-> 2, mode |-> "eraser"] }
CapInputs == 0 .. MaxCap
TickSteps == {MergeWindowMs, MergeWindowMs + 1}

\* ------------------------------------------------- canvas 2D context
\* ImageData: width, height and the pixels row by row (one colour per pixel
\* in place of the four channel bytes).
getImageData(r, x, y, w, h) ==
  [width |-> w, height |-> h,
   data |-> [k \in 1 .. w * h |->
               LET col == (k - 1) % w
                   row == (k - 1) \div w
                   p == <<x + col, y + row>>
               IN IF p \in Pixels THEN r[p] ELSE Transparent]]

putImageData(r, img, dx, dy) ==
  [p \in Pixels |->
     LET col == p[1] - dx
         row == p[2] - dy
     IN IF col >= 0 /\ col < img.width /\ row >= 0 /\ row < img.height
        THEN img.data[row * img.width + col + 1]
        ELSE r[p]]

clearRect(r, x, y, w, h) ==
  [p \in Pixels |->
     IF p[1] >= x /\ p[1] < x + w /\ p[2] >= y /\ p[2] < y + h
     THEN Transparent ELSE r[p]]

\* Half of size * pressure, in sub-pixel units.
HalfWidth(size, pressure) == (size * pressure * SubPx) \div (2 * PressureDen)

Dist2(a, b) == (a[1] - b[1]) * (a[1] - b[1]) + (a[2] - b[2]) * (a[2] - b[2])

\* The centre of pixel p lies within hw of the segment a-b (round caps and
\* joins make the stroked shape exactly that set); a and b in pixels.
Covered(p, a, b, hw) ==
  LET c == <<SubPx * p[1] + SubPx \div 2, SubPx * p[2] + SubPx \div 2>>
      A == <<SubPx * a[1], SubPx * a[2]>>
      B == <<SubPx * b[1], SubPx * b[2]>>
      dx == B[1] - A[1]
      dy == B[2] - A[2]
      len2 == dx * dx + dy * dy
      t == (c[1] - A[1]) * dx + (c[2] - A[2]) * dy
      cross == (c[1] - A[1]) * dy - (c[2] - A[2]) * dx
  IN IF t <= 0 THEN Dist2(c, A) <= hw * hw
     ELSE IF t >= len2 THEN Dist2(c, B) <= hw * hw
     ELSE cross * cross <= hw * hw * len2

\* source-over with an opaque colour, destination-out with opaque black.
Ink(old, colour, mode) == IF mode = "eraser" THEN Transparent ELSE colour

\* beginPath, moveTo(a), lineTo(b), stroke with lineCap = lineJoin = round.
strokeLine(r, a, b, hw, colour, mode) ==
  [p \in Pixels |-> IF Covered(p, a, b, hw) THEN Ink(r[p], colour, mode) ELSE r[p]]

\* beginPath, arc(a, radius, 0, 2 pi), fill.
fillDisk(r, a, hw, colour, mode) ==
  [p \in Pixels |-> IF Covered(p, a, a, hw) THEN Ink(r[p], colour, mode) ELSE r[p]]

\* ------------------------------------------------------- StrokeCommand
\* A point is [x, y, pressure]; pressure in units of 1 / PressureDen.
Pt(pos, pressure) == [x |-> pos[1], y |-> pos[2], pressure |-> pressure]
Pos(pt) == <<pt.x, pt.y>>

MinOf(S) == CHOOSE m \in S : \A n \in S : m <= n
MaxOf(S) == CHOOSE m \in S : \A n \in S : m >= n

calculateBoundingBox(points, size) ==
  IF Len(points) = 0 THEN NULL
  ELSE
    LET radius(pt) == HalfWidth(size, pt.pressure)
        idx == 1 .. Len(points)
        minX == MinOf({SubPx * points[i].x - radius(points[i]) : i \in idx})
        minY == MinOf({SubPx * points[i].y - radius(points[i]) : i \in idx})
        maxX == MaxOf({SubPx * points[i].x + radius(points[i]) : i \in idx})
        maxY == MaxOf({SubPx * points[i].y + radius(points[i]) : i \in idx})
        padding == BBoxPadding * SubPx
        x == Max(0, FloorPx(minX - padding))
        y == Max(0, FloorPx(minY - padding))
        right == Min(CanvasW, CeilPx(maxX + padding))
        bottom == Min(CanvasH, CeilPx(maxY + padding))
        width == right - x
        height == bottom - y
    IN IF width <= 0 \/ height <= 0 THEN NULL
       ELSE [x |-> x, y |-> y, width |-> width, height |-> height]

fitSnapshotToBoundingBox(previousImageData, boundingBox) ==
  IF previousImageData = NULL \/ boundingBox = NULL THEN previousImageData
  ELSE IF previousImageData.width = boundingBox.width
          /\ previousImageData.height = boundingBox.height
  THEN previousImageData
  ELSE
    LET width == boundingBox.width
        height == boundingBox.height
        sourceWidth == previousImageData.width
    IN [width |-> width, height |-> height,
        data |-> [k \in 1 .. width * height |->
                    LET row == (k - 1) \div width
                        col == (k - 1) % width
                        srcOffset == (boundingBox.y + row) * sourceWidth + boundingBox.x
                    IN previousImageData.data[srcOffset + col + 1]]]

\* captureCurrentState of either revision; getImageData throws on a tainted canvas.
captureCurrentState(c, r, isTainted) ==
  IF isTainted THEN NULL
  ELSE IF c.rev = "boundingBox" /\ c.boundingBox # NULL
  THEN getImageData(r, c.boundingBox.x, c.boundingBox.y,
                    c.boundingBox.width, c.boundingBox.height)
  ELSE getImageData(r, 0, 0, CanvasW, CanvasH)

restorePreviousState(c, r) ==
  IF c.rev = "boundingBox" /\ c.previousImageData # NULL /\ c.boundingBox # NULL
  THEN putImageData(r, c.previousImageData, c.boundingBox.x, c.boundingBox.y)
  ELSE IF c.previousImageData # NULL
  THEN putImageData(r, c.previousImageData, 0, 0)
  ELSE clearRect(r, 0, 0, CanvasW, CanvasH)

RECURSIVE performSegments(_, _, _, _, _, _)
performSegments(r, points, i, colour, size, mode) ==
  IF i > Len(points) THEN r
  ELSE performSegments(
         strokeLine(r, Pos(points[i - 1]), Pos(points[i]),
                    HalfWidth(size, points[i].pressure), colour, mode),
         points, i + 1, colour, size, mode)

performStroke(c, r) ==
  IF Len(c.points) = 0 THEN r
  ELSE IF Len(c.points) = 1
  THEN fillDisk(r, Pos(c.points[1]), HalfWidth(c.size, c.points[1].pressure),
                c.colour, c.mode)
  ELSE performSegments(r, c.points, 2, c.colour, c.size, c.mode)

\* new StrokeCommand(layer, strokeData, options): options carries the keys the
\* caller wrote; a key the built revision does not read is ignored.
NewStrokeCommand(revision, id, time, strokeData, options) ==
  LET snapshot == IF "snapshot" \in DOMAIN options THEN options.snapshot ELSE NULL
      common == [id |-> id, rev |-> revision, timestamp |-> time,
                 points |-> strokeData.points, colour |-> strokeData.colour,
                 size |-> strokeData.size, mode |-> strokeData.mode]
  IN IF revision = "boundingBox"
     THEN LET bbox == calculateBoundingBox(strokeData.points, strokeData.size)
          IN common @@
             [previousImageData |-> fitSnapshotToBoundingBox(snapshot, bbox),
              boundingBox |-> bbox,
              isExecuted |-> IF "alreadyApplied" \in DOMAIN options
                             THEN options.alreadyApplied ELSE FALSE,
              hasLiveApplied |-> FALSE]
     ELSE common @@
          [previousImageData |-> snapshot,
           boundingBox |-> NULL,
           isExecuted |-> FALSE,
           hasLiveApplied |-> IF "appliedFromLive" \in DOMAIN options
                              THEN options.appliedFromLive ELSE FALSE]

\* execute() without its test of isExecuted.
executeUnguarded(c, r, isTainted) ==
  [cmd |-> [c EXCEPT !.isExecuted = TRUE], raster |-> performStroke(c, r)]

\* execute() and undo() return the command and the raster they leave.
execute(c, r, isTainted) ==
  IF c.isExecuted THEN [cmd |-> c, raster |-> r]
  ELSE
    LET snap == IF c.previousImageData = NULL
                THEN fitSnapshotToBoundingBox(captureCurrentState(c, r, isTainted),
                                              c.boundingBox)
                ELSE c.previousImageData
        replay == ~ (c.rev = "merging" /\ c.hasLiveApplied)
    IN [cmd |-> [c EXCEPT !.previousImageData = snap,
                          !.hasLiveApplied = FALSE,
                          !.isExecuted = TRUE],
        raster |-> IF replay THEN performStroke(c, r) ELSE r]

undo(c, r) ==
  IF ~ c.isExecuted THEN [cmd |-> c, raster |-> r]
  ELSE [cmd |-> [c EXCEPT !.isExecuted = FALSE],
        raster |-> restorePreviousState(c, r)]

canMerge(this, other) ==
  IF this.rev = "boundingBox" THEN FALSE
  ELSE /\ Abs(other.timestamp - this.timestamp) <= MergeWindowMs
       /\ other.colour = this.colour
       /\ other.size = this.size
       /\ other.mode = this.mode

merge(this, other) ==
  IF this.rev = "boundingBox" THEN this
  ELSE [this EXCEPT !.points = this.points \o other.points,
                    !.timestamp = other.timestamp]

\* ------------------------------------------------------ HistoryManager
\* h is [undoStack, redoStack, maxHistorySize]; every operation returns the
\* stacks it leaves, and undo / redo also the raster, the value returned and
\* the command methods called.
Ids(stack) == [i \in 1 .. Len(stack) |-> stack[i].id]
Front(stack) == SubSeq(stack, 1, Len(stack) - 1)
Top(stack) == stack[Len(stack)]

\* What a call returned: null or a command.
Ref(id) == [id |-> id]

\* addCommand with the redo stack emptied only on the push path.
addCommandKeepingRedoOnMerge(h, command) ==
  IF Len(h.undoStack) > 0 /\ canMerge(Top(h.undoStack), command)
  THEN [undoStack |-> Append(Front(h.undoStack), merge(Top(h.undoStack), command)),
        redoStack |-> h.redoStack,
        merged |-> TRUE]
  ELSE LET pushed == Append(h.undoStack, command)
       IN [undoStack |-> IF Len(pushed) > h.maxHistorySize THEN Tail(pushed) ELSE pushed,
           redoStack |-> <<>>,
           merged |-> FALSE]

\* addCommand with pop() where the code has shift().
addCommandDroppingNewest(h, command) ==
  LET pushed == Append(h.undoStack, command)
  IN [undoStack |-> IF Len(pushed) > h.maxHistorySize THEN Front(pushed) ELSE pushed,
      redoStack |-> <<>>,
      merged |-> FALSE]

addCommand(h, command) ==
  IF Len(h.undoStack) > 0 /\ canMerge(Top(h.undoStack), command)
  THEN [undoStack |-> Append(Front(h.undoStack), merge(Top(h.undoStack), command)),
        redoStack |-> <<>>,
        merged |-> TRUE]
  ELSE LET pushed == Append(h.undoStack, command)
       IN [undoStack |-> IF Len(pushed) > h.maxHistorySize THEN Tail(pushed) ELSE pushed,
           redoStack |-> <<>>,
           merged |-> FALSE]

executeCommand(h, command, r, isTainted) ==
  LET done == execute(command, r, isTainted)
  IN addCommand(h, done.cmd) @@ [raster |-> done.raster,
                                 calls |-> << <<"execute", command.id>> >>]

\* undo() with the redo stack reset ahead of the emptiness test.
HistoryUndoClearingRedo(h, r) ==
  IF Len(h.undoStack) = 0
  THEN [undoStack |-> h.undoStack, redoStack |-> <<>>, raster |-> r,
        ret |-> NULL, calls |-> <<>>]
  ELSE LET command == Top(h.undoStack)
           done == undo(command, r)
       IN [undoStack |-> Front(h.undoStack),
           redoStack |-> Append(h.redoStack, done.cmd),
           raster |-> done.raster,
           ret |-> Ref(command.id),
           calls |-> << <<"undo", command.id>> >>]

HistoryUndo(h, r) ==
  IF Len(h.undoStack) = 0
  THEN [undoStack |-> h.undoStack, redoStack |-> h.redoStack, raster |-> r,
        ret |-> NULL, calls |-> <<>>]
  ELSE LET command == Top(h.undoStack)
           done == undo(command, r)
       IN [undoStack |-> Front(h.undoStack),
           redoStack |-> Append(h.redoStack, done.cmd),
           raster |-> done.raster,
           ret |-> Ref(command.id),
           calls |-> << <<"undo", command.id>> >>]

\* redo() with unshift() where the code has push().
HistoryRedoUnderneath(h, r, isTainted) ==
  IF Len(h.redoStack) = 0
  THEN [undoStack |-> h.undoStack, redoStack |-> h.redoStack, raster |-> r,
        ret |-> NULL, calls |-> <<>>]
  ELSE LET command == Top(h.redoStack)
           done == execute(command, r, isTainted)
       IN [undoStack |-> <<done.cmd>> \o h.undoStack,
           redoStack |-> Front(h.redoStack),
           raster |-> done.raster,
           ret |-> Ref(command.id),
           calls |-> << <<"execute", command.id>> >>]

HistoryRedo(h, r, isTainted) ==
  IF Len(h.redoStack) = 0
  THEN [undoStack |-> h.undoStack, redoStack |-> h.redoStack, raster |-> r,
        ret |-> NULL, calls |-> <<>>]
  ELSE LET command == Top(h.redoStack)
           done == execute(command, r, isTainted)
       IN [undoStack |-> Append(h.undoStack, done.cmd),
           redoStack |-> Front(h.redoStack),
           raster |-> done.raster,
           ret |-> Ref(command.id),
           calls |-> << <<"execute", command.id>> >>]

\* setMaxHistorySize with slice(0, max) where the code has slice(-max).
setMaxHistorySizeKeepingOldest(h, size) ==
  LET newMax == Max(MinHistorySize, size)
      n == Len(h.undoStack)
  IN [maxHistorySize |-> newMax,
      undoStack |-> IF n > newMax THEN SubSeq(h.undoStack, 1, newMax)
                    ELSE h.undoStack]

setMaxHistorySize(h, size) ==
  LET newMax == Max(MinHistorySize, size)
      n == Len(h.undoStack)
  IN [maxHistorySize |-> newMax,
      undoStack |-> IF n > newMax THEN SubSeq(h.undoStack, n - newMax + 1, n)
                    ELSE h.undoStack]

\* The arrays handed to the constructor as options.undoStack and
\* options.redoStack. While the manager's field still is the host's array
\* (undoHeld, redoHeld) the host sees the manager's stack; once the manager
\* has assigned a new array to the field, the host's array keeps what it held
\* (undoLeft, redoLeft).
NoContainers ==
  [supplied |-> FALSE, undoHeld |-> TRUE, redoHeld |-> TRUE,
   undoLeft |-> <<>>, redoLeft |-> <<>>]

\* The fields a call assigns a new array to: addCommand this._redoStack = [],
\* clear both, setMaxHistorySize this._undoStack = slice(...) when it trims.
replaces(op, h, size) ==
  CASE op = "addCommand" -> {"redo"}
    [] op = "clear" -> {"undo", "redo"}
    [] op = "setMaxHistorySize" ->
         IF Len(h.undoStack) > Max(MinHistorySize, size) THEN {"undo"} ELSE {}
    [] OTHER -> {}

observed(hst, h, replaced) ==
  IF ~ hst.supplied THEN hst
  ELSE [hst EXCEPT
          !.undoLeft = IF hst.undoHeld /\ "undo" \in replaced
                       THEN [i \in 1 .. Len(h.undoStack) |-> h.undoStack[i].id] ELSE @,
          !.redoLeft = IF hst.redoHeld /\ "redo" \in replaced
                       THEN [i \in 1 .. Len(h.redoStack) |-> h.redoStack[i].id] ELSE @,
          !.undoHeld = @ /\ "undo" \notin replaced,
          !.redoHeld = @ /\ "redo" \notin replaced]

History == [undoStack |-> undoStack, redoStack |-> redoStack,
            maxHistorySize |-> maxHistorySize]

\* --------------------------------------------------------- CanvasLayer
LayerOrigin == <<0, 0>>
toLocalPoint(w) == <<w[1] - LayerOrigin[1], w[2] - LayerOrigin[2]>>

\* beginStroke pushing onto the buffer it finds.
beginStrokePointsKept(points, pt) == Append(points, pt)

\* The buffer beginStroke leaves: the previous one is dropped.
beginStrokePoints(points, pt) == <<pt>>

\* The snapshot beginStroke takes.
beginStrokeSnapshot(hasHistory, r, isTainted) ==
  IF hasHistory /\ ~ isTainted THEN getImageData(r, 0, 0, CanvasW, CanvasH) ELSE NULL

\* The buffer after stroke() recorded pt: the first point takes its pressure.
strokePointsAfter(points, pt) ==
  Append(IF Len(points) = 1 THEN <<[points[1] EXCEPT !.pressure = pt.pressure]>>
         ELSE points, pt)

\* stroke() without its test of _drawing.
strokeRunsAlways(isDrawing) == TRUE

\* stroke() and endStroke() return at once unless a stroke is in progress.
strokeRuns(isDrawing) == isDrawing
endStrokeRuns(isDrawing) == isDrawing

\* beginStroke() and stroke() handing the manager a command for the points
\* buffered so far.
liveStrokeHistoryEager(h, points, id) ==
  [h EXCEPT !.undoStack = Append(@, [id |-> id, points |-> points])]

\* The manager as beginStroke() and stroke() leave it: neither calls it.
liveStrokeHistory(h, points, id) == h

\* endStroke() builds a command when a manager is bound and a point is buffered.
endStrokeCommits(hasHistory, points) == hasHistory /\ Len(points) > 0

\* The record of a call: for a redo what ran before it, whether the call got
\* past its guard, what it returned, the command methods it called, and the
\* stacks it found.
Note(op, ran, ret, calls, merged) ==
  [op |-> op, prev |-> IF op = "redo" THEN last.op ELSE "", ran |-> ran, ret |-> ret, calls |-> calls,
   merged |-> merged,
   undoBefore |-> Ids(undoStack), redoBefore |-> Ids(redoStack)]

\* A layer is on script while it has seen only: a manager bound, then n
\* completed strokes, then k undos, then k redos.
OffScript == [stage |-> "off", n |-> 0, k |-> 0, after |-> InitialRaster]
Scripted(op, committed) ==
  CASE op = "setHistoryManager" ->
         IF script.stage = "strokes" /\ script.n = 0 /\ ~ drawing THEN script
         ELSE OffScript
    [] op = "beginStroke" ->
         IF script.stage = "strokes" /\ historyManager /\ ~ drawing THEN script
         ELSE OffScript
    [] op = "stroke" ->
         IF script.stage = "strokes" /\ drawing THEN script ELSE OffScript
    [] op = "endStroke" ->
         IF script.stage = "strokes" /\ drawing /\ committed
         THEN [script EXCEPT !.n = @ + 1]
         ELSE OffScript
    [] op = "undo" ->
         IF script.stage = "strokes" /\ ~ drawing /\ script.n > 0
            /\ script.n <= maxHistorySize
         THEN [stage |-> "undos", n |-> script.n, k |-> 1, after |-> raster]
         ELSE IF script.stage = "undos" /\ script.k < script.n
         THEN [script EXCEPT !.k = @ + 1]
         ELSE OffScript
    [] op = "redo" ->
         IF script.stage = "undos" /\ script.k = script.n
         THEN [script EXCEPT !.stage = "redos", !.k = 1]
         ELSE IF script.stage = "redos" /\ script.k < script.n
         THEN [script EXCEPT !.k = @ + 1]
         ELSE OffScript
    [] OTHER -> OffScript

HistoryUnchanged == UNCHANGED <<undoStack, redoStack, maxHistorySize, nextId>>
StrokeUnchanged == UNCHANGED <<drawing, lastPos, strokePoints, strokeStyle, startSnapshot>>
EnvUnchanged == UNCHANGED <<rev, now, tainted, view, layers>>

\* ------------------------------------------------------------ ZoomPan2D
\* Numbers of the view controller.  A zoom is held in fixed point, in units of
\* 1 / ZDen; a logarithm of a zoom in units of ln 2; a length on screen in
\* units of 1 / Unit of a CSS pixel, so that z * length and its half are whole.
RECURSIVE Pow2(_)
Pow2(n) == IF n <= 0 THEN 1 ELSE 2 * Pow2(n - 1)
ZDen == Pow2(FracBits)
Unit == 2 * ZDen
LogRange == (0 - FracBits) .. MaxLog
TruncDiv(a, b) == IF a >= 0 THEN a \div b ELSE 0 - ((0 - a) \div b)

\* A JavaScript number handed to the API: finite, an infinity or NaN.
Num(v) == [k |-> "num", v |-> v]
PosInfinity == [k |-> "inf", v |-> 1]
NegInfinity == [k |-> "inf", v |-> -1]
NaN == [k |-> "nan", v |-> 0]

\* Number.isFinite accepting the infinities.
NumberIsFiniteOrInfinite(x) == x.k # "nan"

NumberIsFinite(x) == x.k = "num"

\* Math.exp of a logarithm in range, and Math.log of a zoom given in fixed
\* point: log(0) is -Infinity, the log of a negative number or of NaN is NaN.
MathExp(logZ) == Pow2(logZ + FracBits)
MathLog(x) ==
  IF x.k = "nan" THEN NaN
  ELSE IF x.k = "inf" THEN (IF x.v > 0 THEN PosInfinity ELSE NaN)
  ELSE IF x.v < 0 THEN NaN
  ELSE IF x.v = 0 THEN NegInfinity
  ELSE Num(CHOOSE logZ \in LogRange : MathExp(logZ) = x.v)

\* a + b where a is finite.
Plus(a, b) == IF b.k = "num" THEN Num(a + b.v) ELSE b

\* clamp(v, lo, hi) of ../utils for finite bounds: min(max(v, lo), hi).
clamp(x, lo, hi) ==
  IF x.k = "nan" THEN NaN
  ELSE IF x.k = "inf" THEN Num(IF x.v > 0 THEN hi ELSE lo)
  ELSE Num(Min(Max(x.v, lo), hi))

\* z * length, for a zoom in fixed point and a length in CSS pixels.
Scaled(z, length) == z * length * (Unit \div ZDen)

\* The canvas: its backing size and the device pixel ratio.
Surface == [width |-> 16, height |-> 16, dpr |-> 2]
ViewW == Surface.width \div Surface.dpr
ViewH == Surface.height \div Surface.dpr

\* The options a host passes; zooms as logarithms to be exponentiated.
ViewOptions == [minZoom |-> MathExp(-1), maxZoom |-> MathExp(2), minVisiblePx |-> 16]

\* The bytes of a pixel of the content plane, which is followed as one colour
\* all over: what the frame cleared it to or what the render callback painted.
TransparentBlack == [r |-> 0, g |-> 0, b |-> 0, a |-> 0]
OpaqueRed == [r |-> 255, g |-> 0, b |-> 0, a |-> 255]
\* The default background, '#fff', with which a frame fills the plane.
Background == [r |-> 255, g |-> 255, b |-> 255, a |-> 255]

\* The state the constructor leaves.
NewZoomPan2D(options) ==
  [currentLogZ |-> 0, targetLogZ |-> 0,
   minZoom |-> options.minZoom, maxZoom |-> options.maxZoom,
   LOG_MIN |-> MathLog(Num(options.minZoom)).v,
   LOG_MAX |-> MathLog(Num(options.maxZoom)).v,
   minVisiblePx |-> IF options.minVisiblePx > Surface.width
                    THEN Max(Surface.width - 5, 0) ELSE options.minVisiblePx,
   tx |-> 0, ty |-> 0, anchorX |-> 0, anchorY |-> 0,
   dragging |-> FALSE, vx |-> 0, vy |-> 0,
   panEnabled |-> TRUE, zoomEnabled |-> TRUE, panClampMode |-> "minVisible",
   docEnabled |-> FALSE, docX |-> 0, docY |-> 0, docW |-> 0, docH |-> 0,
   marginL |-> 0, marginR |-> 0, marginT |-> 0, marginB |-> 0,
   activePointerId |-> NULL, captured |-> NULL, isResetting |-> FALSE,
   raf |-> "scheduled", destroyed |-> FALSE,
   content |-> TransparentBlack, contentTainted |-> FALSE]

clampLog(v, logZ) == clamp(logZ, v.LOG_MIN, v.LOG_MAX)

setTargetLogZoomAtScreen(v, anchorX, anchorY, targetLogZ) ==
  IF ~ NumberIsFinite(targetLogZ) THEN v
  ELSE [v EXCEPT !.anchorX = anchorX * Unit,
                 !.anchorY = anchorY * Unit,
                 !.targetLogZ = clampLog(v, targetLogZ).v]

zoomToAtScreen(v, anchorX, anchorY, zoom) ==
  setTargetLogZoomAtScreen(v, anchorX, anchorY, MathLog(zoom))

\* No compensation at all: the translation stays as it was.
ReanchoredNowhere(anchor, t, zNow, zPrev) == t

\* The compensation taken about the origin of the screen, whatever the anchor.
ReanchoredAboutOrigin(anchor, t, zNow, zPrev) == TruncDiv(t * zNow, zPrev)

\* anchor - (anchor - t) * zNow / zPrev, rounded.
Reanchored(anchor, t, zNow, zPrev) == anchor - TruncDiv((anchor - t) * zNow, zPrev)

\* The margin policy along one axis: t is the translation, size the viewport,
\* m0 and m1 the margins before and after, d0 and len the document's extent.
\* This variant clamps without centring a document that fits.
marginAxisClampOnly(t, z, size, m0, m1, d0, len) ==
  LET tMax == m0 - Scaled(z, d0)
      tMin == (size - m1) - Scaled(z, d0 + len)
  IN Min(tMax, Max(tMin, t))

marginAxis(t, z, size, m0, m1, d0, len) ==
  LET tMax == m0 - Scaled(z, d0)
      tMin == (size - m1) - Scaled(z, d0 + len)
      avail == Max(Unit, size - (m0 + m1))
  IN IF Scaled(z, len) <= avail
     THEN m0 + (avail - Scaled(z, len)) \div 2 - Scaled(z, d0)
     ELSE Min(tMax, Max(tMin, t))

\* The minVisible policy along one axis.  This variant keeps the document's
\* edge, not minVisiblePx of it, inside the viewport.
minVisibleAxisEdgeOnly(t, z, size, minVisiblePx, d0, len) ==
  LET tMax == size - Scaled(z, d0)
      tMin == 0 - Scaled(z, d0 + len)
  IN Min(tMax, Max(tMin, t))

minVisibleAxis(t, z, size, minVisiblePx, d0, len) ==
  LET minVis == Min(minVisiblePx, Scaled(z, len))
      tMax == (size - minVis) - Scaled(z, d0)
      tMin == minVis - Scaled(z, d0 + len)
  IN IF tMin <= tMax THEN Min(tMax, Max(tMin, t)) ELSE (tMin + tMax) \div 2

clampPanForDocMode(v, z) ==
  IF ~ v.docEnabled THEN v
  ELSE
    LET W == ViewW * Unit
        H == ViewH * Unit
    IN IF v.panClampMode = "margin"
       THEN [v EXCEPT
               !.tx = marginAxis(v.tx, z, W, v.marginL * Unit, v.marginR * Unit,
                                 v.docX, v.docW),
               !.ty = marginAxis(v.ty, z, H, v.marginT * Unit, v.marginB * Unit,
                                 v.docY, v.docH)]
       ELSE [v EXCEPT
               !.tx = minVisibleAxis(v.tx, z, W, v.minVisiblePx * Unit,
                                     v.docX, v.docW),
               !.ty = minVisibleAxis(v.ty, z, H, v.minVisiblePx * Unit,
                                     v.docY, v.docH)]

\* zPrev = exp(currentLogZ) is finite and positive, so the test of zPrev never
\* returns; two zooms closer than 1e-12 are equal here.
zoomToAtScreenRaw(v, anchorX, anchorY, zoom) ==
  IF ~ NumberIsFinite(zoom) THEN v
  ELSE
    LET minZ == Max(1, v.minZoom)
        maxZ == v.maxZoom
        zTarget == clamp(zoom, minZ, maxZ).v
        zPrev == MathExp(v.currentLogZ)
        zNow == zTarget
        clampedLogZ == MathLog(Num(zTarget)).v
    IN IF zNow = zPrev THEN v
       ELSE clampPanForDocMode(
              [v EXCEPT !.currentLogZ = clampedLogZ,
                        !.targetLogZ = clampedLogZ,
                        !.tx = Reanchored(anchorX * Unit, v.tx, zNow, zPrev),
                        !.ty = Reanchored(anchorY * Unit, v.ty, zNow, zPrev)],
              zNow)

zoomByFactorAtScreen(v, anchorX, anchorY, factor) ==
  IF (factor.k = "num" /\ factor.v <= 0) \/ (factor.k = "inf" /\ factor.v < 0)
     \/ ~ NumberIsFinite(factor)
  THEN v
  ELSE setTargetLogZoomAtScreen(v, anchorX, anchorY,
                                Plus(v.targetLogZ, MathLog(factor)))

\* _onWheel with stepLog = -deltaY * wheelSensitivity, in units of ln 2.
onWheel(v, anchorX, anchorY, stepLog) ==
  IF ~ v.zoomEnabled THEN v
  ELSE setTargetLogZoomAtScreen(v, anchorX, anchorY, Num(v.targetLogZ + stepLog))

\* The pointer handlers.  A pointer id is held as Ref(id).
onPointerDown(v, button, pointerId) ==
  IF button # 0 \/ ~ v.panEnabled THEN v
  ELSE [v EXCEPT !.dragging = TRUE, !.vx = 0, !.vy = 0,
                 !.activePointerId = Ref(pointerId),
                 !.captured = Ref(pointerId)]

\* One move a millisecond after the last: the velocity is an exponential
\* moving average with emaAlpha = 1 / EmaDen.
onPointerMove(v, dx, dy) ==
  IF ~ v.dragging \/ ~ v.panEnabled THEN v
  ELSE [v EXCEPT !.tx = @ + dx * Unit,
                 !.ty = @ + dy * Unit,
                 !.vx = TruncDiv((EmaDen - 1) * @ + dx * Unit, EmaDen),
                 !.vy = TruncDiv((EmaDen - 1) * @ + dy * Unit, EmaDen)]

\* Math.hypot(vx, vy) < stopSpeed, for a velocity in 1 / Unit pixel per ms.
BelowStopSpeed(vx, vy) ==
  (vx * vx + vy * vy) * StopSpeedDen * StopSpeedDen
    < StopSpeedNum * StopSpeedNum * Unit * Unit

\* pointerup right after the last move (idle = 0, so friction ^ (idle / 16) = 1)
\* or after a pause of idleNoInertiaMs or more.
onPointerUp(v, idleLong) ==
  IF ~ v.dragging THEN v
  ELSE LET vx == IF idleLong THEN 0 ELSE v.vx
           vy == IF idleLong THEN 0 ELSE v.vy
           stop == BelowStopSpeed(vx, vy)
       IN [v EXCEPT !.dragging = FALSE,
                    !.captured = IF v.activePointerId # NULL THEN NULL ELSE @,
                    !.activePointerId = NULL,
                    !.vx = IF stop THEN 0 ELSE vx,
                    !.vy = IF stop THEN 0 ELSE vy]

setPanClampMode(v, mode) == [v EXCEPT !.panClampMode = mode]

\* setPanEnabled that only stores the flag.
setPanEnabledFlagOnly(v, enabled) == [v EXCEPT !.panEnabled = enabled]

setPanEnabled(v, enabled) ==
  IF v.panEnabled = enabled THEN v
  ELSE IF enabled THEN [v EXCEPT !.panEnabled = TRUE]
  ELSE [v EXCEPT !.panEnabled = FALSE, !.dragging = FALSE, !.vx = 0, !.vy = 0]

setDocumentRect(v, x, y, w, h) ==
  [v EXCEPT !.docEnabled = TRUE, !.docX = x, !.docY = y, !.docW = w, !.docH = h]

setDocumentMargins(v, px) ==
  [v EXCEPT !.marginL = IF "left" \in DOMAIN px THEN px.left ELSE @,
            !.marginR = IF "right" \in DOMAIN px THEN px.right ELSE @,
            !.marginT = IF "top" \in DOMAIN px THEN px.top ELSE @,
            !.marginB = IF "bottom" \in DOMAIN px THEN px.bottom ELSE @]

\* The zoom zoomDocumentToFit settles on, in fixed point.
fitZoom(v, mode) ==
  LET availW == Max(1, ViewW - (v.marginL + v.marginR))
      availH == Max(1, ViewH - (v.marginT + v.marginB))
      rw == (availW * ZDen) \div v.docW
      rh == (availH * ZDen) \div v.docH
      z == IF mode = "contain" THEN Min(rw, rh)
           ELSE IF mode = "cover" THEN Max(rw, rh)
           ELSE IF mode = "fitWidth" THEN rw
           ELSE rh
  IN Min(MathExp(v.LOG_MAX), Max(MathExp(v.LOG_MIN), z))

\* zoomDocumentToFit that animates: only the target zoom is set.
zoomDocumentToFitSmooth(v, mode) ==
  IF ~ v.docEnabled THEN v
  ELSE [v EXCEPT !.targetLogZ = MathLog(Num(fitZoom(v, mode))).v]

zoomDocumentToFit(v, mode) ==
  IF ~ v.docEnabled THEN v
  ELSE
    LET availW == Max(1, ViewW - (v.marginL + v.marginR)) * Unit
        availH == Max(1, ViewH - (v.marginT + v.marginB)) * Unit
        z == fitZoom(v, mode)
        sx == v.marginL * Unit + (availW - Scaled(z, v.docW)) \div 2
        sy == v.marginT * Unit + (availH - Scaled(z, v.docH)) \div 2
    IN [v EXCEPT !.targetLogZ = MathLog(Num(z)).v,
                 !.currentLogZ = MathLog(Num(z)).v,
                 !.tx = sx - Scaled(z, v.docX),
                 !.ty = sy - Scaled(z, v.docY)]

resetSmooth(v) == [v EXCEPT !.isResetting = TRUE, !.targetLogZ = 0, !.vx = 0, !.vy = 0]

\* resetInstant that also ends a smooth reset under way.
resetInstantEndingReset(v) ==
  [v EXCEPT !.currentLogZ = 0, !.targetLogZ = 0, !.tx = 0, !.ty = 0,
            !.isResetting = FALSE]

resetInstant(v) == [v EXCEPT !.currentLogZ = 0, !.targetLogZ = 0, !.tx = 0, !.ty = 0]

setZoomRange(v, minZoom, maxZoom) ==
  LET logMin == MathLog(Num(minZoom)).v
      logMax == MathLog(Num(maxZoom)).v
  IN [v EXCEPT !.minZoom = minZoom, !.maxZoom = maxZoom,
               !.LOG_MIN = logMin, !.LOG_MAX = logMax,
               !.targetLogZ = Min(logMax, Max(logMin, @))]

\* The values currentLogZ can take in a frame: current + (target - current) * az
\* with az = 1 - exp(-approachKZoom * dt) in (0, 1], az being 1 in floating
\* point once dt is large.
Approach(current, target) ==
  IF current = target THEN {current}
  ELSE IF current < target THEN (current + 1) .. target
  ELSE target .. (current - 1)

\* One frame of _loop, a millisecond after the last one: logZ is the value
\* currentLogZ moves to and 1 / apDen the share of the way home a reset covers.
loop(v, logZ, apDen) ==
  LET zPrev == MathExp(v.currentLogZ)
      zNow == MathExp(logZ)
      zoomed ==
        [v EXCEPT !.currentLogZ = logZ,
                  !.tx = IF zNow # zPrev THEN Reanchored(v.anchorX, @, zNow, zPrev) ELSE @,
                  !.ty = IF zNow # zPrev THEN Reanchored(v.anchorY, @, zNow, zPrev) ELSE @]
      vx == TruncDiv(zoomed.vx * FrictionNum, FrictionDen)
      vy == TruncDiv(zoomed.vy * FrictionNum, FrictionDen)
      panned ==
        IF zoomed.dragging THEN zoomed
        ELSE IF zoomed.panEnabled
        THEN [zoomed EXCEPT !.tx = @ + zoomed.vx,
                            !.ty = @ + zoomed.vy,
                            !.vx = IF BelowStopSpeed(vx, vy) THEN 0 ELSE vx,
                            !.vy = IF BelowStopSpeed(vx, vy) THEN 0 ELSE vy]
        ELSE [zoomed EXCEPT !.vx = 0, !.vy = 0]
      homing ==
        [panned EXCEPT !.tx = @ - TruncDiv(@, apDen), !.ty = @ - TruncDiv(@, apDen)]
      doneZ == homing.currentLogZ = 0 /\ homing.targetLogZ = 0
      doneP == 2 * Abs(homing.tx) < Unit /\ 2 * Abs(homing.ty) < Unit
      reset ==
        IF ~ panned.isResetting THEN panned
        ELSE IF doneZ /\ doneP
        THEN [homing EXCEPT !.currentLogZ = 0, !.targetLogZ = 0,
                            !.tx = 0, !.ty = 0, !.isResetting = FALSE]
        ELSE homing
  IN clampPanForDocMode(reset, zNow)

\* getPixelColorAtScreen(sx, sy) with sx, sy in halves of a pixel: the colour
\* record it returns, a being data[3] / 255, or the exception that leaves it
\* (getImageData throws on a content plane that is not origin-clean).
getPixelColorAtScreen(v, sx, sy) ==
  LET x == (sx * Surface.dpr) \div 2
      y == (sy * Surface.dpr) \div 2
  IN IF x < 0 \/ y < 0 \/ x >= Surface.width \/ y >= Surface.height
     THEN [threw |-> FALSE, colour |-> TransparentBlack]
     ELSE IF v.contentTainted
     THEN [threw |-> TRUE, colour |-> TransparentBlack]
     ELSE [threw |-> FALSE,
           colour |-> [v.content EXCEPT !.a = v.content.a \div 255]]

\* destroy(): cancelAnimationFrame of a handle whose callback is already
\* running cancels nothing.
destroy(v) ==
  [v EXCEPT !.raf = IF @ = "scheduled" THEN "cancelled" ELSE @,
            !.destroyed = TRUE]

\* What a host and a user feed the view controller.
Anchors == {<<2, 4>>}
ZoomInputs ==
  {Num(MathExp(1)), Num(MathExp(MaxLog)), Num(0), Num(0 - ZDen),
   NaN, PosInfinity, NegInfinity}
FactorInputs ==
  {Num(MathExp(1)), Num(MathExp(-1)), Num(0), NaN, PosInfinity, NegInfinity}
ZoomRanges == {<<MathExp(-1), MathExp(2)>>, <<MathExp(1), MathExp(2)>>}
DocumentRects == {[x |-> 1, y |-> -1, w |-> 4, h |-> 16]}
MarginInputs == {[top |-> 1, bottom |-> 3]}
Movements == {<<2, -2>>, <<-2, 2>>}

\* --------------------------------------------------------- LayerManager
\* A layer object is known by its place in the order of construction (the
\* __LAYER_SEQ of its id); objects[i] holds its space, destroys[i] the calls
\* of its destroy() so far, loading the options of the images being loaded.
NewLayerManager ==
  [world |-> <<>>, screen |-> <<>>, objects |-> <<>>, destroys |-> <<>>,
   loading |-> <<>>]

\* insertAt left out of a call.
Undefined == [k |-> "undefined", v |-> 0]

\* new CanvasLayer(option), new BrushCursor(), BitmapLayer.fromImage resolved.
constructLayer(m, option) ==
  [m EXCEPT !.objects = Append(@, option), !.destroys = Append(@, 0)]

\* Array.prototype.findIndex by id, counted from 1; 0 for none.
findIndex(stack, id) ==
  IF \E i \in 1 .. Len(stack) : stack[i] = id
  THEN CHOOSE i \in 1 .. Len(stack) :
         stack[i] = id /\ \A j \in 1 .. (i - 1) : stack[j] # id
  ELSE 0

\* addLayer that appends whatever insertAt is.
addLayerAtTheEnd(m, layer, insertAt) ==
  [m EXCEPT ![m.objects[layer].space] = Append(@, layer)]

addLayer(m, layer, insertAt) ==
  LET space == m.objects[layer].space
      stack == m[space]
  IN IF insertAt.k = "num" /\ insertAt.v >= 0 /\ insertAt.v < Len(stack)
     THEN [m EXCEPT ![space] = SubSeq(stack, 1, insertAt.v) \o <<layer>>
                                 \o SubSeq(stack, insertAt.v + 1, Len(stack))]
     ELSE [m EXCEPT ![space] = Append(stack, layer)]

createCanvasLayer(m, option) ==
  addLayer(constructLayer(m, option), Len(m.objects) + 1, Undefined)

\* removeLayer that takes the layer out without calling its destroy().
removeLayerOnly(m, id) ==
  LET idxW == findIndex(m.world, id)
      idxS == findIndex(m.screen, id)
  IN IF idxW > 0
     THEN [m EXCEPT !.world = SubSeq(@, 1, idxW - 1) \o SubSeq(@, idxW + 1, Len(@))]
     ELSE IF idxS > 0
     THEN [m EXCEPT !.screen = SubSeq(@, 1, idxS - 1) \o SubSeq(@, idxS + 1, Len(@))]
     ELSE m

removeLayer(m, id) ==
  LET idxW == findIndex(m.world, id)
      idxS == findIndex(m.screen, id)
  IN IF idxW > 0
     THEN [m EXCEPT !.destroys[id] = @ + 1,
                    !.world = SubSeq(@, 1, idxW - 1) \o SubSeq(@, idxW + 1, Len(@))]
     ELSE IF idxS > 0
     THEN [m EXCEPT !.destroys[id] = @ + 1,
                    !.screen = SubSeq(@, 1, idxS - 1) \o SubSeq(@, idxS + 1, Len(@))]
     ELSE m

\* LayerManager.hitTest that walks the stack bottom-first.
hitTestBottomFirst(m, hits, space) ==
  LET allLayers == m[space]
      hit == {i \in 1 .. Len(allLayers) : allLayers[i] \in hits}
  IN IF hit = {} THEN NULL
     ELSE Ref(allLayers[CHOOSE i \in hit : \A j \in hit : j >= i])

\* LayerManager.hitTest(x, y, space), hits being the layers whose own
\* hitTest(x, y) answers true; undefined is NULL here.
hitTest(m, hits, space) ==
  LET allLayers == m[space]
      hit == {i \in 1 .. Len(allLayers) : allLayers[i] \in hits}
  IN IF hit = {} THEN NULL
     ELSE Ref(allLayers[CHOOSE i \in hit : \A j \in hit : j <= i])

\* LayerManager.destroy: one destroy() for every place of both stacks.
RECURSIVE destroyEach(_, _)
destroyEach(destroys, items) ==
  IF items = <<>> THEN destroys
  ELSE destroyEach([destroys EXCEPT ![Head(items)] = @ + 1], Tail(items))

destroyLayers(m) ==
  [m EXCEPT !.destroys = destroyEach(@, m.world \o m.screen),
            !.world = <<>>, !.screen = <<>>]

\* What a host hands the manager: the options of a layer and an insertAt.
LayerOptions == [space : {"world", "screen"}]
InsertAts == {Undefined, NaN, Num(-1), Num(0), Num(1), Num(MaxStack)}

\* ------------------------------------------------------------- actions
OnScript == [stage |-> "strokes", n |-> 0, k |-> 0, after |-> InitialRaster]

InitHost(revision, taints, caps, scripts) ==
  /\ rev = revision
  /\ now = 0
  /\ tainted \in taints
  /\ raster = InitialRaster
  /\ undoStack = <<>>
  /\ redoStack = <<>>
  /\ maxHistorySize \in caps
  /\ historyManager = FALSE
  /\ drawing = FALSE
  /\ lastPos = <<0, 0>>
  /\ strokePoints = <<>>
  /\ strokeStyle = [colour |-> Black, size |-> DefaultStrokeSize, mode |-> "brush"]
  /\ startSnapshot = NULL
  /\ nextId = 1
  /\ layers = NewLayerManager
  /\ recorded = <<>>
  /\ abandoned = FALSE
  /\ script \in scripts
  /\ strokeCalls = 0
  /\ onlyAdds = TRUE
  /\ last = [op |-> "init", prev |-> "", ran |-> TRUE, ret |-> NULL,
             calls |-> <<>>, merged |-> FALSE,
             undoBefore |-> <<>>, redoBefore |-> <<>>]

InitWith(revision, taints, caps, scripts) ==
  /\ InitHost(revision, taints, caps, scripts)
  /\ view = NewZoomPan2D(ViewOptions)
  /\ host = NoContainers

Init == InitWith("boundingBox", {FALSE}, CapInputs, {OffScript})
\* A manager constructed on two empty arrays of the host.
InitObserved ==
  /\ InitHost("boundingBox", {FALSE}, {MaxCap}, {OffScript})
  /\ view = NewZoomPan2D(ViewOptions)
  /\ host = [NoContainers EXCEPT !.supplied = TRUE]

\* A manager constructed with room for every command the host will add.
InitRoomy == InitWith("boundingBox", {FALSE}, {MaxCmds}, {OffScript})
InitMerging == InitWith("merging", {FALSE}, {MaxCap}, {OffScript})
InitLayer == InitWith("boundingBox", {FALSE}, {MaxCap}, {OffScript})
InitLayerMerging == InitWith("merging", {FALSE}, {MaxCap}, {OffScript})
InitScript == InitWith("boundingBox", {FALSE}, {MaxCap}, {OnScript})

\* A view controller whose host has installed a document.
InitDocument ==
  /\ InitHost("boundingBox", {FALSE}, {MaxCap}, {OffScript})
  /\ host = NoContainers
  /\ view \in {setDocumentRect(NewZoomPan2D(ViewOptions), d.x, d.y, d.w, d.h) :
                 d \in DocumentRects}

\* A view controller as constructed, or one whose host has installed a small
\* document under a top margin: none, or one as high as the viewport.
\* A view with no document or with a small one, the camera at home.
InitHoming ==
  /\ InitHost("boundingBox", {FALSE}, {MaxCap}, {OffScript})
  /\ host = NoContainers
  /\ view \in {NewZoomPan2D(ViewOptions),
                setDocumentRect(NewZoomPan2D(ViewOptions), 1, 0, 1, 1)}

InitFit ==
  /\ InitHost("boundingBox", {FALSE}, {MaxCap}, {OffScript})
  /\ host = NoContainers
  /\ view \in {NewZoomPan2D(ViewOptions)} \cup
               {setDocumentMargins(
                  setDocumentRect(NewZoomPan2D(ViewOptions), 1, 0, 1, 1),
                  [top |-> m]) : m \in {0, ViewH}}

SetHistoryManager ==
  /\ historyManager' = TRUE
  /\ last' = Note("setHistoryManager", TRUE, NULL, <<>>, FALSE)
  /\ script' = Scripted("setHistoryManager", FALSE)
  /\ HistoryUnchanged /\ StrokeUnchanged /\ EnvUnchanged /\ UNCHANGED host
  /\ UNCHANGED <<raster, recorded, abandoned, strokeCalls, onlyAdds>>

BeginStroke ==
  /\ \E w \in Positions :
       LET l == toLocalPoint(w)
       IN /\ lastPos' = l
          /\ strokePoints' = beginStrokePoints(strokePoints, Pt(l, PressureDen))
          /\ recorded' = <<l>>
  /\ drawing' = TRUE
  /\ startSnapshot' = beginStrokeSnapshot(historyManager, raster, tainted)
  /\ abandoned' = (drawing /\ Len(strokePoints) > 0)
  /\ script' = Scripted("beginStroke", FALSE)
  /\ last' = Note("beginStroke", TRUE, NULL, <<>>, FALSE)
  /\ undoStack' = liveStrokeHistory(History, strokePoints', nextId).undoStack
  /\ redoStack' = liveStrokeHistory(History, strokePoints', nextId).redoStack
  /\ UNCHANGED <<maxHistorySize, nextId>>
  /\ EnvUnchanged /\ UNCHANGED host
  /\ UNCHANGED <<raster, historyManager, strokeStyle, strokeCalls, onlyAdds>>

StrokeOf(inputs) ==
  /\ \E in \in inputs :
       IF ~ strokeRuns(drawing)
       THEN /\ UNCHANGED <<raster, lastPos, strokePoints, strokeStyle, recorded, strokeCalls>>
            /\ last' = Note("stroke", FALSE, NULL, <<>>, FALSE)
       ELSE LET l == toLocalPoint(in.w)
            IN /\ strokeCalls < MaxStrokeCalls
               /\ strokePoints' = strokePointsAfter(strokePoints, Pt(l, in.pressure))
               /\ recorded' = Append(recorded, l)
               /\ strokeStyle' = [colour |-> in.colour, size |-> in.size, mode |-> in.mode]
               /\ raster' = strokeLine(raster, lastPos, l, HalfWidth(in.size, in.pressure),
                                       in.colour, in.mode)
               /\ lastPos' = l
               /\ strokeCalls' = strokeCalls + 1
               /\ last' = Note("stroke", TRUE, NULL, <<>>, FALSE)
  /\ script' = Scripted("stroke", FALSE)
  /\ undoStack' = liveStrokeHistory(History, strokePoints', nextId).undoStack
  /\ redoStack' = liveStrokeHistory(History, strokePoints', nextId).redoStack
  /\ UNCHANGED <<maxHistorySize, nextId>>
  /\ EnvUnchanged /\ UNCHANGED host
  /\ UNCHANGED <<drawing, startSnapshot, historyManager, abandoned, onlyAdds>>

Stroke == StrokeOf(StrokeInputs)

\* A host that keeps one tool for the whole session: the small eraser.
Erase == StrokeOf({in \in StrokeInputs : in.mode = "eraser"})

EndStroke ==
  IF ~ endStrokeRuns(drawing)
  THEN /\ last' = Note("endStroke", FALSE, NULL, <<>>, FALSE)
       /\ script' = Scripted("endStroke", FALSE)
       /\ HistoryUnchanged /\ StrokeUnchanged /\ EnvUnchanged /\ UNCHANGED host
       /\ UNCHANGED <<raster, historyManager, recorded, abandoned, strokeCalls, onlyAdds>>
  ELSE /\ drawing' = FALSE
       /\ IF endStrokeCommits(historyManager, strokePoints)
          THEN /\ nextId <= MaxStrokes
               /\ LET command ==
                        NewStrokeCommand(rev, nextId, now,
                          [points |-> strokePoints, colour |-> strokeStyle.colour,
                           size |-> strokeStyle.size, mode |-> strokeStyle.mode],
                          [snapshot |-> startSnapshot, alreadyApplied |-> TRUE])
                      added == addCommand(History, command @@ [begin |-> startSnapshot])
                  IN /\ undoStack' = added.undoStack
                     /\ redoStack' = added.redoStack
                     /\ host' = observed(host, History, replaces("addCommand", History, 0))
                     /\ onlyAdds' = (onlyAdds /\ ~ added.merged)
                     /\ last' = Note("endStroke", TRUE, Ref(nextId), <<>>, added.merged)
               /\ nextId' = nextId + 1
               /\ script' = Scripted("endStroke", TRUE)
          ELSE /\ UNCHANGED <<undoStack, redoStack, nextId, onlyAdds, host>>
               /\ script' = Scripted("endStroke", FALSE)
               /\ last' = Note("endStroke", TRUE, NULL, <<>>, FALSE)
       /\ strokePoints' = <<>>
       /\ recorded' = <<>>
       /\ startSnapshot' = NULL
       /\ EnvUnchanged
       /\ UNCHANGED <<raster, maxHistorySize, historyManager, lastPos, strokeStyle,
                       abandoned, strokeCalls>>

\* The host builds a stroke command and has the manager run it.
ExecuteCommand ==
  /\ nextId <= MaxCmds
  /\ \E strokeData \in CommandInputs :
       LET command == NewStrokeCommand(rev, nextId, now, strokeData, <<>>)
                        @@ [begin |-> NULL]
           done == executeCommand(History, command, raster, tainted)
       IN /\ undoStack' = done.undoStack
          /\ redoStack' = done.redoStack
          /\ raster' = done.raster
          /\ onlyAdds' = (onlyAdds /\ ~ done.merged)
          /\ last' = Note("executeCommand", TRUE, Ref(nextId), done.calls, done.merged)
  /\ nextId' = nextId + 1
  /\ script' = Scripted("executeCommand", FALSE)
  /\ StrokeUnchanged /\ EnvUnchanged
  /\ host' = observed(host, History, replaces("addCommand", History, 0))
  /\ UNCHANGED <<maxHistorySize, historyManager, recorded, abandoned, strokeCalls>>

\* The host has the manager run a command built from a pen stroke.
ExecutePressureCommand ==
  /\ nextId <= MaxCmds
  /\ \E strokeData \in PressureInputs :
       LET command == NewStrokeCommand(rev, nextId, now, strokeData, <<>>)
                        @@ [begin |-> NULL]
           done == executeCommand(History, command, raster, tainted)
       IN /\ undoStack' = done.undoStack
          /\ redoStack' = done.redoStack
          /\ raster' = done.raster
          /\ onlyAdds' = (onlyAdds /\ ~ done.merged)
          /\ last' = Note("executeCommand", TRUE, Ref(nextId), done.calls, done.merged)
  /\ nextId' = nextId + 1
  /\ script' = Scripted("executeCommand", FALSE)
  /\ StrokeUnchanged /\ EnvUnchanged
  /\ host' = observed(host, History, replaces("addCommand", History, 0))
  /\ UNCHANGED <<maxHistorySize, historyManager, recorded, abandoned, strokeCalls>>

\* The host hands the manager a command whose stroke it has drawn itself.
AddCommandOf(inputs) ==
  /\ nextId <= MaxCmds
  /\ \E strokeData \in inputs :
       LET snapshot == beginStrokeSnapshot(TRUE, raster, tainted)
           command == NewStrokeCommand(rev, nextId, now, strokeData,
                        [snapshot |-> snapshot, alreadyApplied |-> TRUE])
                        @@ [begin |-> snapshot]
           added == addCommand(History, command)
       IN /\ undoStack' = added.undoStack
          /\ redoStack' = added.redoStack
          /\ raster' = performStroke(command, raster)
          /\ onlyAdds' = (onlyAdds /\ ~ added.merged)
          /\ last' = Note("addCommand", TRUE, Ref(nextId), <<>>, added.merged)
  /\ nextId' = nextId + 1
  /\ script' = Scripted("addCommand", FALSE)
  /\ StrokeUnchanged /\ EnvUnchanged
  /\ host' = observed(host, History, replaces("addCommand", History, 0))
  /\ UNCHANGED <<maxHistorySize, historyManager, recorded, abandoned, strokeCalls>>

AddCommand == AddCommandOf(CommandInputs)

\* The host adds dabs, strokes of one point, at either end of the canvas.
AddDab ==
  AddCommandOf({ [points |-> <<[x |-> x, y |-> 0, pressure |-> PressureDen]>>,
                  colour |-> Red, size |-> 2, mode |-> "brush"] : x \in {0, CanvasW - 1} })

Undo ==
  LET done == HistoryUndo(History, raster)
  IN /\ undoStack' = done.undoStack
     /\ redoStack' = done.redoStack
     /\ raster' = done.raster
     /\ last' = Note("undo", TRUE, done.ret, done.calls, FALSE)
     /\ script' = Scripted("undo", FALSE)
     /\ onlyAdds' = FALSE
     /\ StrokeUnchanged /\ EnvUnchanged
     /\ host' = observed(host, History, replaces("undo", History, 0))
     /\ UNCHANGED <<maxHistorySize, nextId, historyManager, recorded, abandoned,
                     strokeCalls>>

Redo ==
  LET done == HistoryRedo(History, raster, tainted)
  IN /\ undoStack' = done.undoStack
     /\ redoStack' = done.redoStack
     /\ raster' = done.raster
     /\ last' = Note("redo", TRUE, done.ret, done.calls, FALSE)
     /\ script' = Scripted("redo", FALSE)
     /\ onlyAdds' = FALSE
     /\ StrokeUnchanged /\ EnvUnchanged
     /\ host' = observed(host, History, replaces("redo", History, 0))
     /\ UNCHANGED <<maxHistorySize, nextId, historyManager, recorded, abandoned,
                     strokeCalls>>

Clear ==
  /\ undoStack' = <<>>
  /\ redoStack' = <<>>
  /\ last' = Note("clear", TRUE, NULL, <<>>, FALSE)
  /\ script' = Scripted("clear", FALSE)
  /\ onlyAdds' = FALSE
  /\ StrokeUnchanged /\ EnvUnchanged
  /\ host' = observed(host, History, replaces("clear", History, 0))
  /\ UNCHANGED <<raster, maxHistorySize, nextId, historyManager, recorded, abandoned,
                  strokeCalls>>

SetMaxHistorySize ==
  \E size \in CapInputs :
    LET done == setMaxHistorySize(History, size)
    IN /\ maxHistorySize' = done.maxHistorySize
       /\ undoStack' = done.undoStack
       /\ host' = observed(host, History, replaces("setMaxHistorySize", History, size))
       /\ last' = Note("setMaxHistorySize", TRUE, NULL, <<>>, FALSE)
       /\ script' = Scripted("setMaxHistorySize", FALSE)
       /\ onlyAdds' = FALSE
       /\ StrokeUnchanged /\ EnvUnchanged
       /\ UNCHANGED <<raster, redoStack, nextId, historyManager, recorded, abandoned,
                       strokeCalls>>

Destroy ==
  /\ strokePoints' = <<>>
  /\ historyManager' = FALSE
  /\ startSnapshot' = NULL
  /\ recorded' = <<>>
  /\ abandoned' = (abandoned \/ (drawing /\ Len(strokePoints) > 0))
  /\ script' = Scripted("destroy", FALSE)
  /\ last' = Note("destroy", TRUE, NULL, <<>>, FALSE)
  /\ HistoryUnchanged /\ EnvUnchanged /\ UNCHANGED host
  /\ UNCHANGED <<raster, drawing, lastPos, strokeStyle, strokeCalls, onlyAdds>>

\* Time passes between two calls.
Tick ==
  /\ \E d \in TickSteps : now + d <= MaxClock /\ now' = now + d
  /\ UNCHANGED <<rev, tainted, raster, undoStack, redoStack, maxHistorySize,
                 historyManager, drawing, lastPos, strokePoints, strokeStyle,
                 startSnapshot, nextId, recorded, abandoned, script, strokeCalls,
                 onlyAdds, last, view, layers, host>>

\* ------------------------------------------------- ZoomPan2D: actions
\* The call just made on the view controller and the kind of number it was given.
ViewNote(op, arg) == Note(op, TRUE, NULL, <<>>, FALSE) @@ [arg |-> arg.k]

\* The translations the model follows: a camera further out is left alone.
PanWithin(v) == Abs(v.tx) <= MaxPan * Unit /\ Abs(v.ty) <= MaxPan * Unit

LayerUnchanged ==
  UNCHANGED <<rev, now, tainted, raster, undoStack, redoStack, maxHistorySize,
              historyManager, drawing, lastPos, strokePoints, strokeStyle,
              startSnapshot, nextId, recorded, abandoned, script, strokeCalls,
              onlyAdds, layers, host>>

\* An event reaches its handler while the listeners are attached and no frame
\* is running.
Wheel ==
  /\ ~ view.destroyed /\ view.raf # "running"
  /\ \E a \in Anchors, stepLog \in {-1, 1} :
       /\ view' = onWheel(view, a[1], a[2], stepLog)
       /\ last' = ViewNote("wheel", Num(stepLog))
  /\ LayerUnchanged

ZoomToAtScreen ==
  /\ \E a \in Anchors, zoom \in ZoomInputs :
       /\ view' = zoomToAtScreen(view, a[1], a[2], zoom)
       /\ last' = ViewNote("zoomToAtScreen", zoom)
  /\ LayerUnchanged

ZoomToAtScreenRaw ==
  /\ \E a \in Anchors, zoom \in ZoomInputs :
       /\ view' = zoomToAtScreenRaw(view, a[1], a[2], zoom)
       /\ PanWithin(view')
       /\ last' = ViewNote("zoomToAtScreenRaw", zoom)
  /\ LayerUnchanged

ZoomByFactorAtScreen ==
  /\ \E a \in Anchors, factor \in FactorInputs :
       /\ view' = zoomByFactorAtScreen(view, a[1], a[2], factor)
       /\ last' = ViewNote("zoomByFactorAtScreen", factor)
  /\ LayerUnchanged

ZoomDocumentToFit ==
  /\ \E mode \in {"contain", "cover", "fitWidth", "fitHeight"} :
       /\ view' = zoomDocumentToFit(view, mode)
       /\ last' = ViewNote("zoomDocumentToFit", [k |-> mode])
  /\ LayerUnchanged

ResetSmooth ==
  /\ view' = resetSmooth(view)
  /\ last' = ViewNote("resetSmooth", NaN)
  /\ LayerUnchanged

ResetInstant ==
  /\ view' = resetInstant(view)
  /\ last' = ViewNote("resetInstant", NaN)
  /\ LayerUnchanged

SetZoomRange ==
  /\ \E range \in ZoomRanges :
       /\ view' = setZoomRange(view, range[1], range[2])
       /\ last' = ViewNote("setZoomRange", Num(range[1]))
  /\ LayerUnchanged

SetDocumentRect ==
  /\ \E d \in DocumentRects :
       /\ view' = setDocumentRect(view, d.x, d.y, d.w, d.h)
       /\ last' = ViewNote("setDocumentRect", NaN)
  /\ LayerUnchanged

SetDocumentMargins ==
  /\ \E px \in MarginInputs :
       /\ view' = setDocumentMargins(view, px)
       /\ last' = ViewNote("setDocumentMargins", NaN)
  /\ LayerUnchanged

SetPanClampMode ==
  /\ \E mode \in {"margin", "minVisible"} :
       /\ view' = setPanClampMode(view, mode)
       /\ last' = ViewNote("setPanClampMode", NaN)
  /\ LayerUnchanged

SetPanEnabled ==
  /\ \E enabled \in BOOLEAN :
       /\ view' = setPanEnabled(view, enabled)
       /\ last' = ViewNote("setPanEnabled", Num(IF enabled THEN 1 ELSE 0))
  /\ LayerUnchanged

PointerDown ==
  /\ ~ view.destroyed /\ view.raf # "running"
  /\ \E button \in {0, 2}, pointerId \in {1} :
       /\ view' = onPointerDown(view, button, pointerId)
       /\ last' = ViewNote("pointerdown", Num(button))
  /\ LayerUnchanged

PointerMove ==
  /\ ~ view.destroyed /\ view.raf # "running"
  /\ \E m \in Movements :
       /\ view' = onPointerMove(view, m[1], m[2])
       /\ PanWithin(view')
       /\ last' = ViewNote("pointermove", NaN)
  /\ LayerUnchanged

PointerUp ==
  /\ ~ view.destroyed /\ view.raf # "running"
  /\ \E idleLong \in BOOLEAN :
       \* the browser lets go of a captured pointer once pointerup is dispatched
       /\ view' = [onPointerUp(view, idleLong) EXCEPT !.captured = NULL]
       /\ last' = ViewNote("pointerup", NaN)
  /\ LayerUnchanged

\* One animation frame.  A reset in progress covers 1 / apDen of the way home
\* in it, apDen drawn from apDens: ap = 1 - exp(-approachKPan * dt) is 1 in
\* floating point after a long pause and less after a short one.
\* The note of a frame that follows a fit keeps the mode of the fit.
Frame(apDens) ==
  /\ view.raf = "scheduled"
  /\ \E logZ \in Approach(view.currentLogZ, view.targetLogZ),
        apDen \in IF view.isResetting THEN apDens ELSE {1} :
       /\ view' = loop(view, logZ, apDen)
       /\ PanWithin(view')
       /\ last' = [ViewNote("loop", Num(logZ)) EXCEPT
                     !.prev = IF last.op = "zoomDocumentToFit" THEN last.arg ELSE ""]
  /\ LayerUnchanged

Loop == Frame({1})

\* A frame in two steps, for a host whose render callback calls the
\* controller: _loop up to the call of the render callback, and from its return
\* to requestAnimationFrame.
FrameBegin ==
  /\ view.raf = "scheduled"
  /\ \E logZ \in Approach(view.currentLogZ, view.targetLogZ) :
       /\ view' = [loop(view, logZ, 1) EXCEPT !.raf = "running",
                                               !.content = Background]
       /\ PanWithin(view')
       /\ last' = ViewNote("loop", Num(logZ))
  /\ LayerUnchanged

FrameEnd ==
  /\ view.raf = "running"
  /\ view' = [view EXCEPT !.raf = "scheduled"]
  /\ last' = ViewNote("requestAnimationFrame", NaN)
  /\ LayerUnchanged

\* The render callback paints the content plane: with colour of its own, or
\* with an image of another origin, after which the plane is not origin-clean.
Render ==
  /\ view.raf = "running"
  /\ \E foreign \in BOOLEAN :
       /\ view' = [view EXCEPT !.content = OpaqueRed,
                               !.contentTainted = @ \/ foreign]
       /\ last' = ViewNote("render", NaN) @@ [given |-> [foreign |-> foreign]]
  /\ LayerUnchanged

\* The host asks for the colour under a point of the screen, given in halves
\* of a pixel, inside the surface and just outside it.
GetPixelColorAtScreen ==
  /\ \E sx \in {-1, 0, 2 * ViewW - 1, 2 * ViewW}, sy \in {-1, 0, 2 * ViewH} :
       last' = [ViewNote("getPixelColorAtScreen", NaN) EXCEPT
                  !.ret = getPixelColorAtScreen(view, sx, sy)]
               @@ [given |-> [sx |-> sx, sy |-> sy]]
  /\ UNCHANGED view
  /\ LayerUnchanged

DestroyView ==
  /\ view' = destroy(view)
  /\ last' = ViewNote("destroyView", NaN)
  /\ LayerUnchanged

\* The host draws an image of another origin on the layer with drawImage;
\* from then on getImageData throws. The image is a fully transparent one,
\* which leaves every pixel as it is under source-over and destination-out.
DrawImage ==
  /\ ~ tainted
  /\ tainted' = TRUE
  /\ last' = Note("drawImage", TRUE, NULL, <<>>, FALSE)
  /\ UNCHANGED <<rev, now, raster, undoStack, redoStack, maxHistorySize,
                  historyManager, drawing, lastPos, strokePoints, strokeStyle,
                  startSnapshot, nextId, recorded, abandoned, script, strokeCalls,
                  onlyAdds, view, layers, host>>

\* ---------------------------------------------- LayerManager: actions
\* The call just made on the layer manager, what it returned and what it was
\* given.
ManagerNote(op, ret, given) == Note(op, TRUE, ret, <<>>, FALSE) @@ [given |-> given]

HostUnchanged ==
  UNCHANGED <<rev, now, tainted, raster, undoStack, redoStack, maxHistorySize,
              historyManager, drawing, lastPos, strokePoints, strokeStyle,
              startSnapshot, nextId, recorded, abandoned, script, strokeCalls,
              onlyAdds, view, host>>

\* The stacks the model follows, and the calls of destroy() it follows in
\* all.
RECURSIVE Sum(_)
Sum(counts) == IF counts = <<>> THEN 0 ELSE Head(counts) + Sum(Tail(counts))

StacksWithin(m) ==
  /\ Len(m.world) <= MaxStack
  /\ Len(m.screen) <= MaxStack
  /\ Sum(m.destroys) <= MaxDestroys

\* The host constructs a layer of its own, as with new BrushCursor().
NewLayer ==
  /\ Len(layers.objects) + Len(layers.loading) < MaxLayers
  /\ \E option \in LayerOptions :
       /\ layers' = constructLayer(layers, option)
       /\ last' = ManagerNote("new", Ref(Len(layers.objects) + 1), [option |-> option])
  /\ HostUnchanged

AddLayer ==
  /\ \E layer \in 1 .. Len(layers.objects), insertAt \in InsertAts :
       /\ layers' = addLayer(layers, layer, insertAt)
       /\ StacksWithin(layers')
       /\ last' = ManagerNote("addLayer", Ref(layer),
                              [layer |-> layer, insertAt |-> insertAt])
  /\ HostUnchanged

CreateCanvasLayer ==
  /\ Len(layers.objects) + Len(layers.loading) < MaxLayers
  /\ \E option \in LayerOptions :
       /\ layers' = createCanvasLayer(layers, option)
       /\ StacksWithin(layers')
       /\ last' = ManagerNote("createCanvasLayer", Ref(Len(layers.objects) + 1),
                              [option |-> option])
  /\ HostUnchanged

\* createImageLayer up to its await: the image is being loaded.
CreateImageLayer ==
  /\ Len(layers.objects) + Len(layers.loading) < MaxLayers
  /\ layers.loading = <<>>
  /\ \E option \in LayerOptions :
       /\ layers' = [layers EXCEPT !.loading = Append(@, option)]
       /\ last' = ManagerNote("createImageLayer", NULL, [option |-> option])
  /\ HostUnchanged

\* A load ends, in any order: resolved, createImageLayer adds the new layer;
\* rejected, it adds none.
ImageSettled ==
  /\ \E i \in 1 .. Len(layers.loading), resolved \in BOOLEAN :
       LET rest == [layers EXCEPT !.loading = SubSeq(@, 1, i - 1)
                                               \o SubSeq(@, i + 1, Len(@))]
       IN /\ layers' = IF resolved
                        THEN createCanvasLayer(rest, layers.loading[i])
                        ELSE rest
          /\ StacksWithin(layers')
          /\ last' = ManagerNote("imageSettled",
                                 IF resolved THEN Ref(Len(layers.objects) + 1) ELSE NULL,
                                 [option |-> layers.loading[i]])
  /\ HostUnchanged

RemoveLayer ==
  /\ \E id \in 1 .. MaxLayers :
       /\ layers' = removeLayer(layers, id)
       /\ StacksWithin(layers')
       /\ last' = ManagerNote("removeLayer", NULL, [layer |-> id])
  /\ HostUnchanged

\* A point is tested: it lies on any of the layers there are.
HitTest ==
  /\ \E hits \in SUBSET (1 .. Len(layers.objects)), space \in {"world", "screen"} :
       last' = ManagerNote("hitTest", hitTest(layers, hits, space),
                           [hits |-> hits, space |-> space])
  /\ UNCHANGED layers
  /\ HostUnchanged

DestroyLayers ==
  /\ layers' = destroyLayers(layers)
  /\ StacksWithin(layers')
  /\ last' = ManagerNote("destroyLayers", NULL, [layer |-> 0])
  /\ HostUnchanged

\* Every operation of the manager, of the layer and of the view controller, and
\* the clock.
Next ==
  \/ SetHistoryManager
  \/ BeginStroke
  \/ Stroke
  \/ EndStroke
  \/ ExecuteCommand
  \/ AddCommand
  \/ Undo
  \/ Redo
  \/ Clear
  \/ SetMaxHistorySize
  \/ Destroy
  \/ Tick
  \/ Wheel
  \/ ZoomToAtScreen
  \/ ZoomToAtScreenRaw
  \/ ZoomByFactorAtScreen
  \/ ZoomDocumentToFit
  \/ ResetSmooth
  \/ ResetInstant
  \/ SetZoomRange
  \/ SetDocumentRect
  \/ SetDocumentMargins
  \/ SetPanClampMode
  \/ SetPanEnabled
  \/ PointerDown
  \/ PointerMove
  \/ PointerUp
  \/ Loop
  \/ FrameBegin
  \/ FrameEnd
  \/ DestroyView
  \/ AddDab
  \/ Erase
  \/ Render
  \/ GetPixelColorAtScreen
  \/ DrawImage
  \/ NewLayer
  \/ AddLayer
  \/ CreateCanvasLayer
  \/ CreateImageLayer
  \/ ImageSettled
  \/ RemoveLayer
  \/ HitTest
  \/ DestroyLayers

Spec == Init /\ [][Next]_vars

\* A manager driven by a host that builds the commands itself.
NextHistory ==
  \/ AddCommand
  \/ ExecuteCommand
  \/ Undo
  \/ Redo
  \/ Clear
  \/ SetMaxHistorySize

SpecHistory == Init /\ [][NextHistory]_vars

\* A layer that is bound to a manager, drawn on and destroyed.
NextLayer ==
  \/ SetHistoryManager
  \/ BeginStroke
  \/ Stroke
  \/ EndStroke
  \/ Destroy

SpecLayer == InitLayer /\ [][NextLayer]_vars

\* A fresh layer that is given a manager, drawn on, and undone and redone.
NextScript ==
  \/ SetHistoryManager
  \/ BeginStroke
  \/ Stroke
  \/ EndStroke
  \/ Undo
  \/ Redo

SpecScript == InitScript /\ [][NextScript]_vars

\* The manager and the layer under the revision of stroke-command.ts that
\* merges, with a clock.
NextHistoryMerging ==
  \/ AddCommand
  \/ ExecuteCommand
  \/ Undo
  \/ Redo
  \/ Clear
  \/ Tick

SpecHistoryMerging == InitMerging /\ [][NextHistoryMerging]_vars

NextStrokesMerging ==
  \/ SetHistoryManager
  \/ BeginStroke
  \/ Stroke
  \/ EndStroke
  \/ Tick

SpecStrokesMerging == InitLayerMerging /\ [][NextStrokesMerging]_vars

\* A manager running pen strokes of changing pressure, undone and redone.
NextPressure ==
  \/ ExecutePressureCommand
  \/ Undo
  \/ Redo

SpecPressure == InitLayer /\ [][NextPressure]_vars

\* The view controller zoomed by wheel, by calls and by fitting a document.
NextZoom ==
  \/ Wheel
  \/ ZoomToAtScreen
  \/ ZoomToAtScreenRaw
  \/ ZoomByFactorAtScreen
  \/ SetDocumentRect
  \/ SetPanClampMode
  \/ ZoomDocumentToFit
  \/ ResetSmooth
  \/ ResetInstant
  \/ SetZoomRange
  \/ Loop

SpecZoom == InitLayer /\ [][NextZoom]_vars

\* The view controller dragged with a pointer while panning is switched.
NextPan ==
  \/ PointerDown
  \/ PointerMove
  \/ PointerUp
  \/ SetPanEnabled
  \/ Loop

SpecPan == InitLayer /\ [][NextPan]_vars

\* The view controller with a document, dragged, thrown and zoomed.
NextDocument ==
  \/ Wheel
  \/ PointerDown
  \/ PointerMove
  \/ PointerUp
  \/ Loop

SpecDocument == InitDocument /\ [][NextDocument]_vars

\* The view controller with a document inside margins, dragged and zoomed.
NextMargin ==
  \/ SetDocumentMargins
  \/ SetPanClampMode
  \/ ZoomToAtScreenRaw
  \/ PointerDown
  \/ PointerMove
  \/ Loop

SpecMargin == InitDocument /\ [][NextMargin]_vars

\* The view controller fitting a document into the viewport.
NextFit ==
  \/ SetDocumentRect
  \/ SetDocumentMargins
  \/ SetPanClampMode
  \/ SetZoomRange
  \/ ZoomDocumentToFit
  \/ Loop

SpecFit == InitFit /\ [][NextFit]_vars

\* The view controller reset smoothly: input arrives first, and none once a
\* frame has run or resetSmooth() has been called; frames follow one another
\* closely (ap = 1 / 2) and keep coming.
NextReset ==
  \/ last.op \notin {"loop", "resetSmooth"} /\ SetPanClampMode
  \/ last.op \notin {"loop", "resetSmooth"} /\ Wheel
  \/ last.op \notin {"loop", "resetSmooth"} /\ ZoomToAtScreenRaw
  \/ ResetSmooth
  \/ Frame({2})

SpecReset == InitFit /\ [][NextReset]_vars /\ WF_view(Frame({2}))

\* The view controller zoomed by a user and by a host that calls it between
\* frames and from its render callback, and destroys it.
NextFrames ==
  \/ Wheel
  \/ ZoomToAtScreen
  \/ FrameBegin
  \/ FrameEnd
  \/ DestroyView

SpecFrames == InitLayer /\ [][NextFrames]_vars

\* A layer that is given its manager first and then drawn on in whole
\* strokes of one tool, with undo and redo at any moment, within a stroke too.
NextBound ==
  \/ ~ historyManager /\ SetHistoryManager
  \/ historyManager /\ ~ drawing /\ BeginStroke
  \/ drawing /\ Erase
  \/ drawing /\ EndStroke
  \/ historyManager /\ Undo
  \/ historyManager /\ Redo

SpecBound == InitLayer /\ [][NextBound]_vars

\* A smooth reset disturbed by the host and the user: the zoom is driven
\* while the camera rests at the origin, the pointer while the zoom is 1.
CameraAtRest ==
  /\ view.isResetting
  /\ view.tx = 0 /\ view.ty = 0
  /\ ~ view.dragging /\ view.vx = 0 /\ view.vy = 0

ZoomAtOne == view.isResetting /\ view.currentLogZ = 0 /\ view.targetLogZ = 0

NextHoming ==
  \/ CameraAtRest /\ Wheel
  \/ CameraAtRest /\ ZoomToAtScreen
  \/ CameraAtRest /\ ZoomToAtScreenRaw
  \/ CameraAtRest /\ ZoomByFactorAtScreen
  \/ CameraAtRest /\ ZoomDocumentToFit
  \/ ResetSmooth
  \/ ResetInstant
  \/ ZoomAtOne /\ PointerDown
  \/ ZoomAtOne /\ PointerMove
  \/ ZoomAtOne /\ PointerUp
  \/ ZoomAtOne /\ SetPanEnabled
  \/ Frame({1, 2})

SpecHoming == InitHoming /\ [][NextHoming]_vars

\* The merging revision fed with dabs, quickly and slowly.
NextDabs ==
  \/ AddDab
  \/ Undo
  \/ Redo
  \/ Tick

SpecDabs == InitMerging /\ [][NextDabs]_vars

\* A manager built on the host's arrays and used in every way.
NextObserved ==
  \/ AddCommand
  \/ Undo
  \/ Redo
  \/ Clear
  \/ SetMaxHistorySize

SpecObserved == InitObserved /\ [][NextObserved]_vars

\* A manager with room for everything, whose cap the host then lowers.
NextTrim ==
  \/ AddCommand
  \/ Undo
  \/ Redo
  \/ SetMaxHistorySize

SpecTrim == InitRoomy /\ [][NextTrim]_vars

\* The view controller whose render callback paints the content plane and
\* whose host picks colours from it.
NextPick ==
  \/ Wheel
  \/ FrameBegin
  \/ Render
  \/ FrameEnd
  \/ GetPixelColorAtScreen

SpecPick == InitLayer /\ [][NextPick]_vars

\* A layer whose canvas the host may taint, drawn on by live strokes, undone
\* and redone.
NextTaint ==
  \/ DrawImage
  \/ SetHistoryManager
  \/ BeginStroke
  \/ Stroke
  \/ EndStroke
  \/ Undo
  \/ Redo

SpecTaint == InitLayer /\ [][NextTaint]_vars

\* A layer manager to which a host adds layers it made and layers the manager
\* makes, from which it removes them, and which it tests and destroys.
NextManager ==
  \/ NewLayer
  \/ AddLayer
  \/ CreateCanvasLayer
  \/ CreateImageLayer
  \/ ImageSettled
  \/ RemoveLayer
  \/ HitTest
  \/ DestroyLayers

SpecManager == InitLayer /\ [][NextManager]_vars

\* ---------------------------------------------------------- properties

\* C1. addCommand, and executeCommand which calls it, always leaves the redo
\* stack empty, whether the command was pushed or merged into the top one.
C1_AddEmptiesRedo ==
  last.op \in {"addCommand", "executeCommand"} => redoStack = <<>>

\* A command was merged into the top one while the redo stack held a command.
C1_Witness ==
  /\ last.op = "addCommand"
  /\ last.merged
  /\ Len(last.redoBefore) > 0

\* C2. From an empty manager with cap M, once K > M non-merging commands have
\* been added the undo stack holds exactly the M most recent, in the order
\* they were added.
C2_KeepsMostRecent ==
  (onlyAdds /\ nextId - 1 > maxHistorySize) =>
    Ids(undoStack) = [i \in 1 .. maxHistorySize |-> nextId - 1 - maxHistorySize + i]

\* One command more than a cap of at least two has been added.
C2_Witness ==
  /\ onlyAdds
  /\ maxHistorySize >= 2
  /\ nextId - 1 > maxHistorySize

\* C3. In every state reachable through addCommand, executeCommand, undo, redo,
\* clear and setMaxHistorySize, neither stack is longer than maxHistorySize.
C3_StacksWithinCap ==
  /\ Len(undoStack) <= maxHistorySize
  /\ Len(redoStack) <= maxHistorySize

\* C4. undo() on a non-empty undo stack pops the top command, calls its undo()
\* once, pushes it on the redo stack and returns it; redo() is the mirror image
\* with execute(); no other entry changes, and an undo followed at once by a
\* redo leaves both stacks as they were before the undo.
C4_UndoStep ==
  (last'.op = "undo" /\ Len(undoStack) > 0) =>
    /\ undoStack' = Front(undoStack)
    /\ Front(redoStack') = redoStack
    /\ Top(redoStack').id = Top(undoStack).id
    /\ last'.ret = Ref(Top(undoStack).id)
    /\ last'.calls = << <<"undo", Top(undoStack).id>> >>

C4_RedoStep ==
  (last'.op = "redo" /\ Len(redoStack) > 0) =>
    /\ redoStack' = Front(redoStack)
    /\ Front(undoStack') = undoStack
    /\ Top(undoStack').id = Top(redoStack).id
    /\ last'.ret = Ref(Top(redoStack).id)
    /\ last'.calls = << <<"execute", Top(redoStack).id>> >>

C4_RoundTrip ==
  (last.op = "undo" /\ last.ret # NULL /\ last'.op = "redo") =>
    /\ Ids(undoStack') = last.undoBefore
    /\ Ids(redoStack') = last.redoBefore

C4_UndoRedoMoveTheTop ==
  [][C4_UndoStep /\ C4_RedoStep /\ C4_RoundTrip]_vars

\* A redo has just followed an undo, with another command under the one moved.
C4_Witness ==
  /\ last.op = "redo"
  /\ last.prev = "undo"
  /\ last.ret # NULL
  /\ Len(undoStack) >= 2

\* C5. undo() on an empty undo stack and redo() on an empty redo stack return
\* null, call no command method, and leave both stacks and the raster alone.
C5_EmptyStep ==
  /\ (last'.op = "undo" /\ Len(undoStack) = 0) =>
       /\ last'.ret = NULL
       /\ last'.calls = <<>>
       /\ UNCHANGED <<undoStack, redoStack, raster>>
  /\ (last'.op = "redo" /\ Len(redoStack) = 0) =>
       /\ last'.ret = NULL
       /\ last'.calls = <<>>
       /\ UNCHANGED <<undoStack, redoStack, raster>>

C5_EmptyUndoRedoDoNothing == [][C5_EmptyStep]_vars

\* undo() has returned null while the redo stack held a command.
C5_Witness ==
  /\ last.op = "undo"
  /\ last.ret = NULL
  /\ Len(redoStack) > 0

\* C6. On a fresh layer with a manager bound, after N completed strokes with
\* captured snapshots, N undos followed by N redos leave the raster as it was
\* right after the N strokes.
C6_RedoRestoresStrokes ==
  (script.stage = "redos" /\ script.k = script.n) => raster = script.after

\* C7. After a completed stroke whose snapshot was captured at beginStroke, a
\* single undo() gives every pixel the value it had at beginStroke.
C7_UndoStep ==
  (/\ last.op = "endStroke"
   /\ last.ret # NULL
   /\ last'.op = "undo"
   /\ Len(undoStack) > 0
   /\ Ref(Top(undoStack).id) = last.ret
   /\ Top(undoStack).begin # NULL) =>
    getImageData(raster', 0, 0, CanvasW, CanvasH) = Top(undoStack).begin

C7_UndoRestoresBegin == [][C7_UndoStep]_vars

\* C8. Every beginStroke, stroke*, endStroke sequence on a layer with a manager
\* puts exactly one new command on top of the undo stack, over the commands
\* that were there.
C8_EndStrokeStep ==
  (/\ last'.op = "endStroke"
   /\ drawing
   /\ historyManager
   /\ Len(strokePoints) > 0) =>
    /\ Len(undoStack') > 0
    /\ Top(undoStack').id = nextId
    /\ Ids(Front(undoStack')) \in {Ids(undoStack), Tail(Ids(undoStack) \o <<0>>)}

C8_OneCommandPerStroke == [][C8_EndStrokeStep]_vars

\* C9. A stroke begun and never ended, because beginStroke is called again or
\* the layer is destroyed, loses its snapshot and its points and yields no
\* command: a later endStroke commits only the points recorded since.
C9_Step ==
  /\ last'.op = "beginStroke" =>
       /\ UNCHANGED <<undoStack, redoStack>>
       /\ strokePoints' = <<Pt(lastPos', PressureDen)>>
       /\ startSnapshot' =
            IF historyManager THEN getImageData(raster, 0, 0, CanvasW, CanvasH)
            ELSE NULL
  /\ last'.op = "destroy" =>
       /\ UNCHANGED <<undoStack, redoStack>>
       /\ strokePoints' = <<>>
       /\ startSnapshot' = NULL
  /\ nextId' # nextId => last'.op = "endStroke"
  /\ (last'.op = "endStroke" /\ last'.ret # NULL) =>
       /\ Len(undoStack') > 0
       /\ Ref(Top(undoStack').id) = last'.ret
       /\ [i \in 1 .. Len(Top(undoStack').points) |-> Pos(Top(undoStack').points[i])]
            = recorded
       /\ Top(undoStack').begin = startSnapshot

C10_Step ==
  (last'.op \in {"stroke", "endStroke"} /\ ~ drawing) =>
    UNCHANGED <<raster, strokePoints, undoStack, redoStack>>

C10_IdleStrokeCallsDoNothing == [][C10_Step]_vars

\* stroke() was called on a layer between two strokes, with a command in the
\* history.
C10_Witness ==
  /\ last.op = "stroke"
  /\ ~ last.ran
  /\ Len(undoStack) > 0

\* C11. beginStroke() and stroke() leave the undo and the redo stack of the
\* bound manager as they were: a command enters the history at endStroke()
\* only, so no stack holds a command for the stroke in progress.
C11_Step ==
  /\ last'.op \in {"beginStroke", "stroke"} => UNCHANGED <<undoStack, redoStack>>
  /\ Ids(undoStack') # Ids(undoStack) =>
       last'.op \in {"endStroke", "undo", "redo"}
  /\ drawing' =>
       \A i \in 1 .. Len(undoStack') + Len(redoStack') :
         (undoStack' \o redoStack')[i].id < nextId'

C11_LiveStrokeStaysOutOfHistory == [][C11_Step]_vars

\* stroke() has drawn a segment on a layer whose manager holds a command on
\* each stack.
C11_Witness ==
  /\ last.op = "stroke"
  /\ last.ran
  /\ historyManager
  /\ Len(undoStack) > 0
  /\ Len(redoStack) > 0

\* C12. endStroke() leaves every pixel of the raster as it was before the call:
\* the command it commits is recorded as already executed, so that its stroke
\* is not drawn a second time.
C12_Step ==
  (last'.op = "endStroke" /\ drawing) =>
    /\ raster' = raster
    /\ endStrokeCommits(historyManager, strokePoints) =>
         /\ Len(undoStack') > 0
         /\ Top(undoStack').id = nextId
         /\ Top(undoStack').isExecuted
         /\ execute(Top(undoStack'), raster', tainted').raster = raster

C12_EndStrokeDrawsNothing == [][C12_Step]_vars

\* endStroke() has committed a stroke of two segments that changed the raster.
C12_Witness ==
  /\ last.op = "endStroke"
  /\ last.ret # NULL
  /\ Len(undoStack) > 0
  /\ Len(Top(undoStack).points) >= 3
  /\ raster # InitialRaster

\* C13. A stroke of a single point, beginStroke() then endStroke() with no
\* stroke() between them, paints the same filled disk of radius
\* size * pressure / 2 while it is drawn live and when redo() executes it again.
C13_Step ==
  (/\ last'.op = "endStroke"
   /\ drawing
   /\ endStrokeCommits(historyManager, strokePoints)
   /\ Len(strokePoints) = 1
   /\ startSnapshot # NULL) =>
    LET c == Top(undoStack')
        before == putImageData(raster, startSnapshot, 0, 0)
        disk == fillDisk(before, Pos(c.points[1]),
                         HalfWidth(c.size, c.points[1].pressure), c.colour, c.mode)
    IN /\ execute([c EXCEPT !.isExecuted = FALSE], before, tainted).raster = disk
       /\ raster' = disk

C13_TapPaintsTheSameDisk == [][C13_Step]_vars

\* C14. The bounding rectangle stored in a StrokeCommand contains every pixel
\* of the raster that the stroke inks, whatever its points and their pressures.
C14_Untouched == [p \in Pixels |-> "untouched"]

C14_Inked(c) == {p \in Pixels : performStroke(c, C14_Untouched)[p] # "untouched"}

C14_InBox(p, b) ==
  /\ b # NULL
  /\ b.x <= p[1] /\ p[1] < b.x + b.width
  /\ b.y <= p[2] /\ p[2] < b.y + b.height

C14_BoundingBoxHoldsTheInk ==
  \A i \in 1 .. Len(undoStack) + Len(redoStack) :
    LET c == (undoStack \o redoStack)[i]
    IN \A p \in C14_Inked(c) : C14_InBox(p, c.boundingBox)

\* C17. setPanEnabled(false) called while a drag is in progress leaves the
\* controller with dragging = false, vx = vy = 0 and the pointer capture
\* released: no captured active pointer id remains held.
C17_Step ==
  (last'.op = "setPanEnabled" /\ view.dragging /\ ~ view'.panEnabled) =>
    /\ ~ view'.dragging
    /\ view'.vx = 0 /\ view'.vy = 0
    /\ view'.captured = NULL
    /\ view'.activePointerId = NULL

C17_DisablingPanEndsTheDrag == [][C17_Step]_vars

\* C15. After any sequence of wheel events, zoomToAtScreen, zoomToAtScreenRaw,
\* zoomByFactorAtScreen, zoomDocumentToFit, resetSmooth, resetInstant,
\* setZoomRange and animation frames, currentLogZ and targetLogZ both lie
\* within [log(minZoom), log(maxZoom)].
C15_LogZoomsWithinRange ==
  /\ view.LOG_MIN = MathLog(Num(view.minZoom)).v
  /\ view.LOG_MAX = MathLog(Num(view.maxZoom)).v
  /\ view.LOG_MIN <= view.currentLogZ /\ view.currentLogZ <= view.LOG_MAX
  /\ view.LOG_MIN <= view.targetLogZ /\ view.targetLogZ <= view.LOG_MAX

\* C16. zoomToAtScreen, zoomToAtScreenRaw and zoomByFactorAtScreen called with
\* NaN, +Infinity or -Infinity for the zoom leave currentLogZ, targetLogZ, tx,
\* ty, anchorX and anchorY as they were.
C16_Step ==
  (/\ last'.op \in {"zoomToAtScreen", "zoomToAtScreenRaw", "zoomByFactorAtScreen"}
   /\ last'.arg # "num") =>
    /\ view'.currentLogZ = view.currentLogZ
    /\ view'.targetLogZ = view.targetLogZ
    /\ view'.tx = view.tx
    /\ view'.ty = view.ty
    /\ view'.anchorX = view.anchorX
    /\ view'.anchorY = view.anchorY

C16_NonFiniteZoomIsIgnored == [][C16_Step]_vars

\* zoomToAtScreenRaw was given an infinity while the camera was away from its
\* initial place and below the largest zoom.
C16_Witness ==
  /\ last.op = "zoomToAtScreenRaw"
  /\ last.arg = "inf"
  /\ view.currentLogZ < view.LOG_MAX
  /\ view.tx # 0

\* C18. With a document installed and panClampMode = minVisible, at the end of
\* every animation frame tx lies in [minVisX - z * docR, (W - minVisX) - z * docL],
\* minVisX being min(minVisiblePx, z * docW), when that interval is not empty,
\* and is its midpoint when it is empty; likewise ty.  Drag, inertia and zoom
\* before the frame make no difference.
C18_Lo(z, size, d0, len) ==
  Min(view.minVisiblePx * Unit, Scaled(z, len)) - Scaled(z, d0 + len)

C18_Hi(z, size, d0, len) ==
  (size - Min(view.minVisiblePx * Unit, Scaled(z, len))) - Scaled(z, d0)

C18_Axis(t, z, size, d0, len) ==
  IF C18_Lo(z, size, d0, len) <= C18_Hi(z, size, d0, len)
  THEN C18_Lo(z, size, d0, len) <= t /\ t <= C18_Hi(z, size, d0, len)
  ELSE 2 * t = C18_Lo(z, size, d0, len) + C18_Hi(z, size, d0, len)

C18_FrameEndsWithinMinVisible ==
  (last.op = "loop" /\ view.docEnabled /\ view.panClampMode = "minVisible") =>
    /\ C18_Axis(view.tx, MathExp(view.currentLogZ), ViewW * Unit, view.docX, view.docW)
    /\ C18_Axis(view.ty, MathExp(view.currentLogZ), ViewH * Unit, view.docY, view.docH)

\* A frame has ended with the document thrown against the end of a proper
\* interval across, still moving, and pinned to the midpoint of an empty one
\* down.
C18_Witness ==
  LET z == MathExp(view.currentLogZ)
  IN /\ last.op = "loop"
     /\ view.docEnabled
     /\ view.panClampMode = "minVisible"
     /\ ~ view.dragging
     /\ view.vx # 0
     /\ C18_Lo(z, ViewW * Unit, view.docX, view.docW)
          < C18_Hi(z, ViewW * Unit, view.docX, view.docW)
     /\ view.tx = C18_Hi(z, ViewW * Unit, view.docX, view.docW)
     /\ C18_Lo(z, ViewH * Unit, view.docY, view.docH)
          > C18_Hi(z, ViewH * Unit, view.docY, view.docH)

\* C19. With a document installed and panClampMode = margin, after the clamp
\* step the document is exactly centred in the viewport less its margins along
\* each axis where z * docSize <= the available size, and along the other
\* axes the translation lies in [(W - marginR) - z * docR, marginL - z * docL],
\* an interval that is never empty there.
C19_Axis(t, z, size, m0, m1, d0, len) ==
  LET avail == Max(Unit, size - (m0 + m1))
      lo == (size - m1) - Scaled(z, d0 + len)
      hi == m0 - Scaled(z, d0)
  IN IF Scaled(z, len) <= avail
     THEN (Scaled(z, d0) + t) - m0 = (size - m1) - (Scaled(z, d0 + len) + t)
     ELSE lo <= hi /\ lo <= t /\ t <= hi

C19_Clamped(v) ==
  /\ C19_Axis(v.tx, MathExp(v.currentLogZ), ViewW * Unit,
              v.marginL * Unit, v.marginR * Unit, v.docX, v.docW)
  /\ C19_Axis(v.ty, MathExp(v.currentLogZ), ViewH * Unit,
              v.marginT * Unit, v.marginB * Unit, v.docY, v.docH)

C19_Step ==
  (/\ view.docEnabled
   /\ view.panClampMode = "margin"
   /\ \/ last'.op = "loop"
      \/ last'.op = "zoomToAtScreenRaw" /\ view'.currentLogZ # view.currentLogZ) =>
    C19_Clamped(view')

C19_MarginClampCentresOrBounds == [][C19_Step]_vars

\* A frame has ended during a drag with the document centred across, with room
\* to spare, and held at the end of its interval between unequal margins down.
C19_Witness ==
  /\ last.op = "loop"
  /\ view.docEnabled
  /\ view.panClampMode = "margin"
  /\ view.dragging
  /\ view.marginT # view.marginB
  /\ Scaled(MathExp(view.currentLogZ), view.docW)
       < (ViewW - view.marginL - view.marginR) * Unit
  /\ Scaled(MathExp(view.currentLogZ), view.docH)
       > (ViewH - view.marginT - view.marginB) * Unit
  /\ view.ty = view.marginT * Unit - Scaled(MathExp(view.currentLogZ), view.docY)

\* C20. zoomDocumentToFit(mode) with a document installed sets currentLogZ and
\* targetLogZ in the same call to log(z), z being the fit ratio of the mode
\* over the viewport less its margins (contain the smaller of the two ratios,
\* cover the larger, fitWidth and fitHeight their own) clamped to
\* [minZoom, maxZoom], and sets (tx, ty) so that the document is centred in
\* that viewport; with no document installed it changes nothing.  The viewport
\* less its margins is at least one pixel wide and high, starting at the left
\* and top margin.
C20_IsClampedRatio(z, avail, doc) ==
  IF avail * ZDen <= view.minZoom * doc THEN z = view.minZoom
  ELSE IF avail * ZDen >= view.maxZoom * doc THEN z = view.maxZoom
  ELSE z * doc = avail * ZDen

C20_Centred(t, z, size, m0, m1, d0, len) ==
  LET avail == Max(Unit, size - (m0 + m1))
  IN (Scaled(z, d0) + t) - m0 = (m0 + avail) - (Scaled(z, d0 + len) + t)

C20_Step ==
  last'.op = "zoomDocumentToFit" =>
    IF ~ view.docEnabled THEN view' = view
    ELSE
      LET z == MathExp(view'.currentLogZ)
          availW == Max(1, ViewW - (view.marginL + view.marginR))
          availH == Max(1, ViewH - (view.marginT + view.marginB))
          widthRules ==
            \/ last'.arg = "fitWidth"
            \/ last'.arg = "contain" /\ availW * view.docH <= availH * view.docW
            \/ last'.arg = "cover" /\ availW * view.docH >= availH * view.docW
      IN /\ view'.targetLogZ = view'.currentLogZ
         /\ IF widthRules THEN C20_IsClampedRatio(z, availW, view.docW)
            ELSE C20_IsClampedRatio(z, availH, view.docH)
         /\ C20_Centred(view'.tx, z, ViewW * Unit, view.marginL * Unit,
                        view.marginR * Unit, view.docX, view.docW)
         /\ C20_Centred(view'.ty, z, ViewH * Unit, view.marginT * Unit,
                        view.marginB * Unit, view.docY, view.docH)

C20_FitSnapsAndCentres == [][C20_Step]_vars

\* cover has fitted the document between margins at a zoom that is neither
\* end of the range.
C20_Witness ==
  /\ last.op = "zoomDocumentToFit"
  /\ last.arg = "cover"
  /\ view.docEnabled
  /\ view.marginT + view.marginB > 0
  /\ view.LOG_MIN < view.currentLogZ
  /\ view.currentLogZ < view.LOG_MAX
  /\ view.currentLogZ # 0

\* C21. After zoomDocumentToFit('contain') whose fit zoom lies within
\* [minZoom, maxZoom] unclamped, a frame that follows with no inertia and no
\* reset in progress leaves tx and ty as they were, in the margin mode and in the
\* minVisible mode alike, so that the document is still centred in the viewport
\* less its margins.
C21_Unlimited(v) ==
  LET availW == Max(1, ViewW - (v.marginL + v.marginR))
      availH == Max(1, ViewH - (v.marginT + v.marginB))
      widthRules == availW * v.docH <= availH * v.docW
      avail == IF widthRules THEN availW ELSE availH
      doc == IF widthRules THEN v.docW ELSE v.docH
  IN /\ MathExp(v.LOG_MIN) * doc <= avail * ZDen
     /\ avail * ZDen <= MathExp(v.LOG_MAX) * doc

C21_FrameAfterFit ==
  /\ last.op = "zoomDocumentToFit"
  /\ last.arg = "contain"
  /\ last'.op = "loop"
  /\ view.docEnabled
  /\ C21_Unlimited(view)
  /\ view.vx = 0 /\ view.vy = 0
  /\ ~ view.isResetting

C21_Still ==
  /\ view'.tx = view.tx
  /\ view'.ty = view.ty
  /\ C20_Centred(view'.tx, MathExp(view'.currentLogZ), ViewW * Unit,
                 view.marginL * Unit, view.marginR * Unit, view.docX, view.docW)
  /\ C20_Centred(view'.ty, MathExp(view'.currentLogZ), ViewH * Unit,
                 view.marginT * Unit, view.marginB * Unit, view.docY, view.docH)

C21_FrameAfterFitKeepsTranslation == [][C21_FrameAfterFit => C21_Still]_vars

\* C21 as it holds: in the minVisible mode the margins must be non-negative and
\* leave at least one pixel of viewport in each axis; the margin mode needs no
\* such condition.
C21_MarginsLeaveRoom(v) ==
  /\ v.marginL >= 0 /\ v.marginR >= 0 /\ v.marginT >= 0 /\ v.marginB >= 0
  /\ v.marginL + v.marginR <= ViewW - 1
  /\ v.marginT + v.marginB <= ViewH - 1

C21_FrameAfterFitWithRoomKeepsTranslation ==
  [][(C21_FrameAfterFit
      /\ (view.panClampMode = "margin" \/ C21_MarginsLeaveRoom(view)))
     => C21_Still]_vars

\* A frame has run right after an unclamped contain fit between margins, in
\* the minVisible mode.
C21_Witness ==
  /\ last.op = "loop"
  /\ last.prev = "contain"
  /\ view.panClampMode = "minVisible"
  /\ view.marginT + view.marginB > 0
  /\ C21_MarginsLeaveRoom(view)
  /\ C21_Unlimited(view)
  /\ view.LOG_MIN < view.currentLogZ

\* C22. zoomToAtScreenRaw(ax, ay, z) with a finite z that changes the zoom sets
\* currentLogZ and targetLogZ, within the call, to log(clamp(z, minZoom,
\* maxZoom)); with no document installed the world point under (ax, ay) stays
\* where it was (to the rounding of one division), and with a document
\* installed (tx, ty) ends within the policy of the pan-clamp mode in force.
C22_Target(zoom) == Min(view.maxZoom, Max(Max(1, view.minZoom), zoom.v))

C22_SameWorldPoint(anchor, t0, zPrev, t1, zNow) ==
  Abs((anchor - t1) * zPrev - (anchor - t0) * zNow) < zPrev

C22_Step ==
  \A a \in Anchors, zoom \in ZoomInputs :
    (/\ last'.op = "zoomToAtScreenRaw"
     /\ zoom.k = "num"
     /\ view' = zoomToAtScreenRaw(view, a[1], a[2], zoom)
     /\ C22_Target(zoom) # MathExp(view.currentLogZ)) =>
      LET zPrev == MathExp(view.currentLogZ)
          zNow == C22_Target(zoom)
      IN /\ view'.currentLogZ = view'.targetLogZ
         /\ MathExp(view'.currentLogZ) = zNow
         /\ ~ view.docEnabled =>
              /\ C22_SameWorldPoint(a[1] * Unit, view.tx, zPrev, view'.tx, zNow)
              /\ C22_SameWorldPoint(a[2] * Unit, view.ty, zPrev, view'.ty, zNow)
         /\ (view.docEnabled /\ view.panClampMode = "margin") => C19_Clamped(view')
         /\ (view.docEnabled /\ view.panClampMode = "minVisible") =>
              /\ C18_Axis(view'.tx, zNow, ViewW * Unit, view.docX, view.docW)
              /\ C18_Axis(view'.ty, zNow, ViewH * Unit, view.docY, view.docH)

C22_RawZoomSnapsAnchorsAndClamps == [][C22_Step]_vars

\* A raw zoom has changed the zoom, with no document installed, and left the
\* camera zoomed in and translated; an animated zoom had set an anchor before.
C22_Witness ==
  /\ last.op = "zoomToAtScreenRaw"
  /\ last.arg = "num"
  /\ ~ view.docEnabled
  /\ view.currentLogZ = view.targetLogZ
  /\ view.currentLogZ > 0
  /\ view.tx # 0
  /\ view.anchorX # 0

\* C23. While the zoom eases toward its target, with no drag, no inertia, no
\* reset in progress and no document, every frame leaves the world point under
\* (anchorX, anchorY) where it was (to the rounding of one division).
C23_Step ==
  (/\ last'.op = "loop"
   /\ ~ view.dragging
   /\ view.vx = 0 /\ view.vy = 0
   /\ ~ view.isResetting
   /\ ~ view.docEnabled) =>
    /\ C22_SameWorldPoint(view.anchorX, view.tx, MathExp(view.currentLogZ),
                          view'.tx, MathExp(view'.currentLogZ))
    /\ C22_SameWorldPoint(view.anchorY, view.ty, MathExp(view.currentLogZ),
                          view'.ty, MathExp(view'.currentLogZ))
    /\ view'.anchorX = view.anchorX
    /\ view'.anchorY = view.anchorY

C23_EaseKeepsTheAnchoredPoint == [][C23_Step]_vars

\* A frame has moved the zoom part of the way to its target, about an anchor
\* off the origin, with the camera translated.
C23_Witness ==
  /\ last.op = "loop"
  /\ view.currentLogZ # view.targetLogZ
  /\ ~ view.docEnabled
  /\ ~ view.isResetting
  /\ view.anchorX # 0
  /\ view.tx # 0

\* C24. Once resetSmooth() has been called, frames kept coming and no other
\* input arriving, the reset comes to an end: isResetting is false with
\* currentLogZ = targetLogZ = 0 and tx = ty = 0, whatever the camera was and
\* whatever document is installed.
C24_Home ==
  /\ ~ view.isResetting
  /\ view.currentLogZ = 0
  /\ view.targetLogZ = 0
  /\ view.tx = 0
  /\ view.ty = 0

C24_ResetComesHome == view.isResetting ~> C24_Home

\* C25. Once destroy() has been called on the view controller no frame runs
\* any more and the loop is not scheduled again, whether destroy() was called
\* between two frames or by the render callback of a frame that is running.
C25_Step ==
  view.destroyed => (last'.op # "loop" /\ view'.raf # "scheduled")

C25_NoFrameAfterDestroy == [][C25_Step]_vars

\* C26. addLayer(layer, insertAt) returns the layer's id and puts the layer at
\* index insertAt of the stack of its space when insertAt is a number with
\* 0 <= insertAt < length, at the end otherwise; the layers that were in the
\* stack keep their order and the other stack is untouched. No operation of
\* the manager reorders a stack: a step leaves a stack as it was, empties it,
\* or takes one place out of it or puts one place into it.
C26_Without(stack, i) == SubSeq(stack, 1, i - 1) \o SubSeq(stack, i + 1, Len(stack))

C26_Placed ==
  LET layer == last'.given.layer
      insertAt == last'.given.insertAt
      space == layers.objects[layer].space
      other == IF space = "world" THEN "screen" ELSE "world"
      valid == insertAt.k = "num" /\ insertAt.v >= 0 /\ insertAt.v < Len(layers[space])
      at == IF valid THEN insertAt.v + 1 ELSE Len(layers[space]) + 1
  IN /\ last'.ret = Ref(layer)
     /\ Len(layers'[space]) = Len(layers[space]) + 1
     /\ layers'[space][at] = layer
     /\ C26_Without(layers'[space], at) = layers[space]
     /\ layers'[other] = layers[other]

C26_OrderKept(old, new) ==
  \/ new = old
  \/ new = <<>>
  \/ \E i \in 1 .. Len(old) : new = C26_Without(old, i)
  \/ \E i \in 1 .. Len(new) : old = C26_Without(new, i)

C26_Step ==
  /\ last'.op = "addLayer" => C26_Placed
  /\ C26_OrderKept(layers.world, layers'.world)
  /\ C26_OrderKept(layers.screen, layers'.screen)

C26_AddLayerPlacesAndNothingReorders == [][C26_Step]_vars

\* C26 happens: addLayer has put a layer between two other layers, and
\* addLayer with an index past the end has put one on top.
C26_Witness ==
  /\ last.op = "addLayer"
  /\ last.given.insertAt = Num(1)
  /\ Len(layers.world) = 3
  /\ layers.world[2] = last.given.layer
  /\ layers.world[1] # layers.world[2]
  /\ layers.world[3] # layers.world[2]
  /\ layers.world[1] # layers.world[3]

\* C28. hitTest(x, y, space) returns the layer drawn last among the layers of
\* the stack of that space whose own hitTest(x, y) is true, and undefined when
\* there is none.
C28_Answer ==
  LET stack == layers[last.given.space]
      hits == last.given.hits
  IN IF \A i \in 1 .. Len(stack) : stack[i] \notin hits
     THEN last.ret = NULL
     ELSE \E i \in 1 .. Len(stack) :
            /\ stack[i] \in hits
            /\ \A j \in (i + 1) .. Len(stack) : stack[j] \notin hits
            /\ last.ret = Ref(stack[i])

C28_HitTestReturnsTheTopmostHit == last.op = "hitTest" => C28_Answer

\* C28 happens: of three layers of a stack the point lies on the lower two,
\* and the middle one is returned.
C28_Witness ==
  /\ last.op = "hitTest"
  /\ last.given.space = "world"
  /\ Len(layers.world) = 3
  /\ layers.world[1] # layers.world[2]
  /\ layers.world[1] \in last.given.hits
  /\ layers.world[2] \in last.given.hits
  /\ layers.world[3] \notin last.given.hits
  /\ last.ret = Ref(layers.world[2])

\* C27. removeLayer(id) for a layer held in a stack calls the destroy() of
\* that layer once, and of no other layer, and takes one place holding it out
\* of its stack, the other places of that stack keeping their order and the
\* other stack being untouched; for an id held in no stack it calls no
\* destroy() and changes nothing.
C27_Holds(stack, id) == \E i \in 1 .. Len(stack) : stack[i] = id

C27_TakenOut(old, new, id) ==
  \E i \in 1 .. Len(old) : old[i] = id /\ new = C26_Without(old, i)

C27_Removed ==
  LET id == last'.given.layer
  IN IF C27_Holds(layers.world, id) \/ C27_Holds(layers.screen, id)
     THEN /\ layers'.destroys = [layers.destroys EXCEPT ![id] = @ + 1]
          /\ layers'.objects = layers.objects
          /\ \/ /\ C27_TakenOut(layers.world, layers'.world, id)
                /\ layers'.screen = layers.screen
             \/ /\ C27_TakenOut(layers.screen, layers'.screen, id)
                /\ layers'.world = layers.world
     ELSE layers' = layers

C27_Step == last'.op = "removeLayer" => C27_Removed

C29_Places(m, id) ==
  Cardinality({i \in 1 .. Len(m.world) : m.world[i] = id})
  + Cardinality({i \in 1 .. Len(m.screen) : m.screen[i] = id})

C29_HeldOnce == \A id \in 1 .. Len(layers.objects) : C29_Places(layers, id) <= 1

C29_Disposed ==
  /\ layers'.world = <<>>
  /\ layers'.screen = <<>>
  /\ \A id \in 1 .. Len(layers.objects) :
       layers'.destroys[id] = layers.destroys[id]
                              + (IF C29_Places(layers, id) > 0 THEN 1 ELSE 0)

C29_Step ==
  /\ C29_HeldOnce
  /\ last'.op = "destroyLayers" => C29_Disposed

C29_EachLayerHeldOnceAndDestroyedOnce == [][C29_Step]_vars

\* C30. undo() of an executed StrokeCommand that holds no snapshot: if the
\* command has a bounding rectangle, the pixels inside the rectangle become
\* transparent and every pixel outside it stays as it was; if it has none,
\* every pixel of the layer becomes transparent.
C30_Inside(p, box) ==
  /\ p[1] >= box.x /\ p[1] < box.x + box.width
  /\ p[2] >= box.y /\ p[2] < box.y + box.height

C30_Cleared(command) ==
  \A p \in Pixels :
    raster'[p] = IF command.boundingBox = NULL \/ C30_Inside(p, command.boundingBox)
                 THEN Transparent
                 ELSE raster[p]

C30_Step ==
  (/\ last'.op = "undo"
   /\ Len(undoStack) > 0
   /\ Top(undoStack).isExecuted
   /\ Top(undoStack).previousImageData = NULL)
  => C30_Cleared(Top(undoStack))

C31_Outside ==
  LET x == (last.given.sx * Surface.dpr) \div 2
      y == (last.given.sy * Surface.dpr) \div 2
  IN x < 0 \/ y < 0 \/ x >= Surface.width \/ y >= Surface.height

C31_PickNeverThrows ==
  last.op = "getPixelColorAtScreen" =>
    /\ ~ last.ret.threw
    /\ (C31_Outside \/ view.contentTainted) =>
         last.ret.colour = [r |-> 0, g |-> 0, b |-> 0, a |-> 0]

\* C32. A manager whose cap was given below 1, to the constructor (the cap it
\* holds is then below 1) or to setMaxHistorySize (the cap it holds is then
\* 1), behaves as with a cap of 1: after an addCommand, alone or within
\* executeCommand, the undo stack holds exactly the command just added.
C32_Step ==
  (last'.op \in {"addCommand", "executeCommand"} /\ maxHistorySize <= 1)
  => Ids(undoStack') = <<nextId>>

C32_CapBelowOneIsOne == [][C32_Step]_vars

\* C33. setMaxHistorySize(n) leaves a cap of max(1, n), at least 1; called on
\* an undo stack longer than that cap it keeps exactly the commands added
\* last, as many as the cap, in their order, and it leaves the redo stack as
\* it was.
C33_Step ==
  last'.op = "setMaxHistorySize" =>
    /\ maxHistorySize' >= 1
    /\ redoStack' = redoStack
    /\ Len(undoStack) > maxHistorySize' =>
         undoStack' = SubSeq(undoStack, Len(undoStack) - maxHistorySize' + 1,
                             Len(undoStack))

C34_HostUndo == IF host.undoHeld THEN Ids(undoStack) ELSE host.undoLeft
C34_HostRedo == IF host.redoHeld THEN Ids(redoStack) ELSE host.redoLeft

C34_HostSeesTheStacks ==
  host.supplied => (C34_HostUndo = Ids(undoStack) /\ C34_HostRedo = Ids(redoStack))

\* C35. When addCommand merges a command into the top undo command, undoing
\* the merged command gives the raster that undoing the two commands one
\* after the other gives, and redoing it gives the raster that redoing the
\* two one after the other gives, from the same base raster.
C35_Step ==
  (last'.op = "addCommand" /\ last'.merged) =>
    LET first == Top(undoStack)
        merged == Top(undoStack')
        second == [merged EXCEPT
                     !.points = SubSeq(@, Len(first.points) + 1, Len(@)),
                     !.previousImageData = getImageData(raster, 0, 0, CanvasW, CanvasH)]
        base == undo(first, raster).raster
    IN /\ undo(merged, raster').raster
            = undo(first, undo(second, raster').raster).raster
       /\ performStroke(merged, base)
            = performStroke(second, performStroke(first, base))

C35_MergedIsTheTwoInSequence == [][C35_Step]_vars

\* C36. On a layer with a bound manager, whatever way beginStroke, stroke and
\* endStroke were interleaved with undo() and redo(), between two strokes
\* calling undo() until the undo stack is empty brings the raster back to
\* its initial content (the cap holds every stroke of the model).
RECURSIVE C36_UndoAll(_, _)
C36_UndoAll(h, r) ==
  IF Len(h.undoStack) = 0 THEN r
  ELSE LET done == HistoryUndo(h, r)
       IN C36_UndoAll([h EXCEPT !.undoStack = done.undoStack,
                                !.redoStack = done.redoStack], done.raster)

C36_UndoAllComesBack ==
  (historyManager /\ ~ drawing) => C36_UndoAll(History, raster) = InitialRaster

\* C37. When endStroke() commits a stroke that was drawn with stroke() calls
\* and whose snapshot was captured, undoing and redoing the command gives the
\* raster the live drawing left, whatever colour, size and mode each stroke()
\* call was given.
C37_Step ==
  (/\ last'.op = "endStroke"
   /\ last'.ret # NULL
   /\ ~ last'.merged
   /\ Top(undoStack').begin # NULL
   /\ Len(Top(undoStack').points) >= 2) =>
    LET undone == undo(Top(undoStack'), raster')
    IN execute(undone.cmd, undone.raster, tainted').raster = raster'

C37_RedoReproducesTheLiveStroke == [][C37_Step]_vars

\* C38. After LayerManager.destroy() has returned, an image load that was
\* still pending at that moment and ends next leaves both stacks empty.
C38_Step ==
  (last.op = "destroyLayers" /\ last'.op = "imageSettled") =>
    (layers'.world = <<>> /\ layers'.screen = <<>>)

C38_StacksStayEmptyAfterDestroy == [][C38_Step]_vars

\* C39. In every state of the view controller a drag in progress implies that
\* panning is enabled, and with panning disabled the inertia velocity is
\* (0, 0); a pointerdown, pointermove or pointerup received while panning is
\* disabled changes neither tx, ty nor the velocity.
C39_Still ==
  /\ view.dragging => view.panEnabled
  /\ ~ view.panEnabled => (view.vx = 0 /\ view.vy = 0)

C39_Step ==
  (last'.op \in {"pointerdown", "pointermove", "pointerup"} /\ ~ view.panEnabled) =>
    /\ view'.tx = view.tx /\ view'.ty = view.ty
    /\ view'.vx = view.vx /\ view'.vy = view.vy

C39_NoPanWhileDisabled == []C39_Still /\ [][C39_Step]_vars

\* A drag moved the view, panning was then disabled, and a pointermove came.
C39_Witness ==
  /\ last.op = "pointermove"
  /\ ~ view.panEnabled
  /\ ~ view.dragging
  /\ view.tx # 0
  /\ view.vx = 0 /\ view.vy = 0

\* C40. Once resetSmooth() has set isResetting no input and no call clears
\* it: only a frame does, one that leaves currentLogZ = targetLogZ = 0 and
\* the translation where the origin is clamped to; and every frame that
\* starts with the flag set moves tx and ty toward 0 (seen where nothing
\* else moves them: no document, no zoom change, no inertia).
C40_Toward(from, to) ==
  /\ from * to >= 0
  /\ Abs(to) <= Abs(from)
  /\ Abs(from) >= 2 => Abs(to) < Abs(from)

C40_Cleared ==
  (view.isResetting /\ ~ view'.isResetting) =>
    LET home == clampPanForDocMode([view' EXCEPT !.tx = 0, !.ty = 0], MathExp(0))
    IN /\ last'.op = "loop"
       /\ view.targetLogZ = 0
       /\ view'.currentLogZ = 0 /\ view'.targetLogZ = 0
       /\ view'.tx = home.tx /\ view'.ty = home.ty

C40_Pulled ==
  (/\ view.isResetting
   /\ last'.op = "loop"
   /\ ~ view.docEnabled
   /\ view'.currentLogZ = view.currentLogZ
   /\ view.dragging \/ (view.vx = 0 /\ view.vy = 0)) =>
    (C40_Toward(view.tx, view'.tx) /\ C40_Toward(view.ty, view'.ty))

C40_OnlyAFrameEndsTheReset == [][C40_Cleared /\ C40_Pulled]_vars

\* A frame has run during a drag made while the reset is under way, and the
\* reset is still under way.
C40_Witness ==
  /\ last.op = "loop"
  /\ view.isResetting
  /\ view.dragging
  /\ view.tx # 0
====
